---- MODULE Spec2Model ----
(***************************************************************************)
(* Present-weather resolution of weewx-DWD (bin/user/weathercodes.py) and  *)
(* the cloud-cover banding shared with bin/user/weatherservices.py and     *)
(* bin/user/dwd.py.                                                        *)
(*                                                                         *)
(* Representation of Python values                                         *)
(*   None / value     : None == <<>>, Some(v) == <<v>>                      *)
(*   str              : a sequence of tokens whose concatenation is the    *)
(*                      string; a table text is one token, a file name is  *)
(*                      split in front of its extension ('rain.png' is     *)
(*                      <<"rain", ".png">>), a formatted number is one     *)
(*                      token per character; '' is <<>>                    *)
(*   number           : [int |-> is it a Python int, m |-> value * 1000],  *)
(*                      so that 6.999, 12.5 and 106.25 are exact           *)
(*   tuple t, t[i]    : sequence t, t[i+1]                                 *)
(*   return / raise   : Ok(v) == <<"ok", v>>, Raise(e) == <<"raise", e>>    *)
(***************************************************************************)
EXTENDS Integers, Sequences, FiniteSets, TLC

None == <<>>
Some(v) == <<v>>
IsNone(o) == Len(o) = 0
Val(o) == o[1]

Ok(v) == <<"ok", v>>
Raise(e) == <<"raise", e>>
IsOk(r) == r[1] = "ok"

Int_(k) == [int |-> TRUE, m |-> k * 1000]
Float_(m) == [int |-> FALSE, m |-> m]

(* Python truth value of an optional str: None and '' are false *)
Truthy(o) == Len(o) > 0 /\ Len(o[1]) > 0

Range(s) == {s[i] : i \in 1..Len(s)}

(***************************************************************************)
(* Static tables                                                           *)
(***************************************************************************)

(* WW_LIST as written in the source; entry: ww, German text, English text, *)
(* severity, Belchertown icon, DWD icon, Aeris icon, Aeris code, wi class  *)
WW_LIST_src ==
  <<
    <<19, <<"Tornado (Windhose), Trichterwolke">>, <<"funnel clouds (tornado)">>, None, Some(<<"tornado", ".png">>), Some(<<"18", ".png">>), Some(<<>>), Some(<<"::FC">>), Some(<<"wi-tornado">>)>>,
    <<99, <<"schweres Gewitter mit Hagel">>, <<"heavy thunderstorm with hail">>, None, Some(<<"thunderstorm", ".png">>), Some(<<"30", ".png">>), Some(<<"tstorm">>), Some(<<":H:T">>), Some(<<"wi-thunderstorm">>)>>,
    <<98, <<"Gewitter mit Staub- oder Standsturm">>, <<"thunderstorm with duststorm or sandstorm">>, None, Some(<<"thunderstorm", ".png">>), Some(<<"27", ".png">>), Some(<<"tstorm">>), Some(<<"::T">>), Some(<<"wi-thunderstorm">>)>>,
    <<97, <<"schweres Gewitter mit Regen oder Schnee">>, <<"heavy thunderstorm with rain or snow">>, None, Some(<<"thunderstorm", ".png">>), Some(<<"28", ".png">>), Some(<<"tstorm">>), Some(<<":H:T">>), Some(<<"wi-thunderstorm">>)>>,
    <<96, <<"leichtes oder mäßiges Gewitter mit Hagel">>, <<"slight or moderate thunderstorm with hail">>, None, Some(<<"thunderstorm", ".png">>), Some(<<"29", ".png">>), Some(<<"tstorm">>), Some(<<":L:T">>), Some(<<"wi-thunderstorm">>)>>,
    <<95, <<"leichtes oder mäßiges Gewitter mit Regen oder Schnee">>, <<"slight or moderate thunderstorm with rain or snow">>, Some(1), Some(<<"thunderstorm", ".png">>), Some(<<"27", ".png">>), Some(<<"tstorm">>), Some(<<":L:T">>), Some(<<"wi-thunderstorm">>)>>,
    <<57, <<"mäßiger oder starker gefrierender Sprühregen">>, <<"Drizzle, freezing, moderate or heavy (dence)">>, Some(2), Some(<<"sleet", ".png">>), Some(<<"67", ".png">>), Some(<<"freezingrain">>), Some(<<":H:ZL">>), Some(<<"wi-sleet">>)>>,
    <<56, <<"leichter gefrierender Sprühregen">>, <<"Drizzle, freezing, slight">>, Some(3), Some(<<"sleet", ".png">>), Some(<<"66", ".png">>), Some(<<"freezingrain">>), Some(<<":L:ZL">>), Some(<<"wi-sleet">>)>>,
    <<67, <<"mäßiger bis starker gefrierender Regen">>, <<"Rain, freezing, moderate or heavy (dence)">>, Some(4), Some(<<"sleet", ".png">>), Some(<<"67", ".png">>), Some(<<"freezingrain">>), Some(<<":H:ZR">>), Some(<<"wi-sleet">>)>>,
    <<66, <<"leichter gefrierender Regen">>, <<"Rain, freezing, slight">>, Some(5), Some(<<"sleet", ".png">>), Some(<<"66", ".png">>), Some(<<"freezingrain">>), Some(<<":L:ZR">>), Some(<<"wi-sleet">>)>>,
    <<24, <<"nach gefrierendem Regen">>, <<"after freezing drizzle or freezing rain">>, None, None, Some(<<"eis", ".png">>), None, Some(<<"::ZR">>), Some(<<>>)>>,
    <<90, <<"kräftige Hagelschauer">>, <<"moderate or heavy shower(s) of hail">>, None, Some(<<"hail", ".png">>), Some(<<"17", ".png">>), Some(<<"hail">>), Some(<<":H:A">>), Some(<<"wi-hail">>)>>,
    <<89, <<"leichte Hagelschauer">>, <<"slight shower(s) of hail">>, None, Some(<<"hail", ".png">>), Some(<<"17", ".png">>), Some(<<"hail">>), Some(<<":L:A">>), Some(<<"wi-hail">>)>>,
    <<88, <<"kräftige Graupelschauer">>, <<"moderate or heavy shower(s) of snow pellets">>, None, Some(<<"snow", ".png">>), Some(<<"86", ".png">>), Some(<<"snow">>), Some(<<":H:A">>), Some(<<"wi-hail">>)>>,
    <<87, <<"leichte Graupelschauer">>, <<"slight shower(s) of snow pellets">>, None, Some(<<"snow", ".png">>), Some(<<"85", ".png">>), Some(<<"snow">>), Some(<<":L:A">>), Some(<<"wi-hail">>)>>,
    <<79, <<"Niederschlag in Form von Eiskörnern">>, <<"ice pellets">>, None, Some(<<"snow", ".png">>), Some(<<"85", ".png">>), Some(<<"snow">>), Some(<<":L:A">>), Some(<<"wi-hail">>)>>,
    <<94, <<"Schnee, Schneeregen oder Hagel nach einem Gewitter">>, <<"snow, or rain and snow mixed or hail after thunderstorm">>, None, Some(<<"snow", ".png">>), Some(<<"27", ".png">>), Some(<<"snow">>), Some(<<":H:T">>), Some(<<"wi-snow">>)>>,
    <<93, <<"leichter Schnee, Schneeregen oder Hagel nach einem Gewitter">>, <<"slight snow, or rain and snow mixed or hail after thunderstorm">>, None, Some(<<"snow", ".png">>), Some(<<"27", ".png">>), Some(<<"snow">>), Some(<<":L:T">>), Some(<<"wi-snow">>)>>,
    <<92, <<"kräftiger Regen nach Gewitter">>, <<"moderate or heavy rain after thunderstorm">>, None, Some(<<"rain", ".png">>), Some(<<"27", ".png">>), Some(<<"rain">>), Some(<<":H:T">>), Some(<<"wi-rain">>)>>,
    <<91, <<"leichter Regen nach Gewitter">>, <<"slight rain after thunderstorm">>, None, Some(<<"rain", ".png">>), Some(<<"27", ".png">>), Some(<<"rain">>), Some(<<":L:T">>), Some(<<"wi-rain">>)>>,
    <<86, <<"mäßiger bis starker Schneeschauer">>, <<"Snow shower(s), moderate or heavy">>, Some(6), Some(<<"snow", ".png">>), Some(<<"86", ".png">>), Some(<<"snowshowers">>), Some(<<":H:SW">>), Some(<<"wi-snow">>)>>,
    <<85, <<"leichter Schneeschauer">>, <<"Snow shower(s), slight">>, Some(7), Some(<<"snow", ".png">>), Some(<<"85", ".png">>), Some(<<"snowshowers">>), Some(<<":L:SW">>), Some(<<"wi-snow">>)>>,
    <<84, <<"mäßiger oder starker Schneeregenschauer">>, <<"Shower(s) of rain and snow mixed, moderate or heavy">>, Some(8), Some(<<"sleet", ".png">>), Some(<<"84", ".png">>), Some(<<"wintrymix">>), Some(<<":H:RS">>), Some(<<"wi-sleet">>)>>,
    <<83, <<"leichter Schneeregenschauer">>, <<"Shower(s) of rain and snow mixed, slight">>, Some(9), Some(<<"sleet", ".png">>), Some(<<"83", ".png">>), Some(<<"wintrymix">>), Some(<<":L:RS">>), Some(<<"wi-sleet">>)>>,
    <<82, <<"äußerst heftiger Regenschauer">>, <<"extremely heavy rain shower">>, Some(10), Some(<<"rain", ".png">>), Some(<<"82", ".png">>), Some(<<"showers">>), Some(<<":VH:RW">>), Some(<<"wi-showers">>)>>,
    <<81, <<"mäßiger oder starker Regenschauer">>, <<"moderate or heavy rain showers">>, Some(11), Some(<<"rain", ".png">>), Some(<<"82", ".png">>), Some(<<"showers">>), Some(<<":H:RW">>), Some(<<"wi-showers">>)>>,
    <<80, <<"leichter Regenschauer">>, <<"slight rain shower">>, Some(12), Some(<<"rain", ".png">>), Some(<<"80", ".png">>), Some(<<"showers">>), Some(<<":L:RW">>), Some(<<"wi-showers">>)>>,
    <<75, <<"durchgehend starker Schneefall">>, <<"heavy snowfall, continuous">>, Some(13), Some(<<"snow", ".png">>), Some(<<"16", ".png">>), Some(<<"snow">>), Some(<<":H:S">>), Some(<<"wi-snow">>)>>,
    <<74, <<"intermittierend starker Schneefall">>, <<"heavy snowfall, intermittent">>, None, Some(<<"snow", ".png">>), Some(<<"16", ".png">>), Some(<<"snow">>), Some(<<"IN:H:S">>), Some(<<"wi-snow">>)>>,
    <<73, <<"durchgehend mäßiger Schneefall">>, <<"moderate snowfall, continuous">>, Some(14), Some(<<"snow", ".png">>), Some(<<"15", ".png">>), Some(<<"snow">>), Some(<<"::S">>), Some(<<"wi-snow">>)>>,
    <<72, <<"intermittierend mäßiger Schneefall">>, <<"moderate snowfall, intermittent">>, None, Some(<<"snow", ".png">>), Some(<<"15", ".png">>), Some(<<"snow">>), Some(<<"IN::S">>), Some(<<"wi-snow">>)>>,
    <<71, <<"durchgehend leichter Schneefall">>, <<"slight snowfall, continuous">>, Some(15), Some(<<"snow", ".png">>), Some(<<"14", ".png">>), Some(<<"snow">>), Some(<<":L:S">>), Some(<<"wi-snow">>)>>,
    <<70, <<"intermittierend leichter Schneefall">>, <<"slight snowfall, intermittent">>, None, Some(<<"snow", ".png">>), Some(<<"14", ".png">>), Some(<<"snow">>), Some(<<"IN:L:S">>), Some(<<"wi-snow">>)>>,
    <<69, <<"mäßger oder starker Schneeregen">>, <<"moderate or heavy rain and snow">>, Some(16), Some(<<"sleet", ".png">>), Some(<<"13", ".png">>), Some(<<"rainandsnow">>), Some(<<":H:RS">>), Some(<<"wi-sleet">>)>>,
    <<68, <<"leichter Schneeregen">>, <<"slight rain and snow">>, Some(17), Some(<<"sleet", ".png">>), Some(<<"12", ".png">>), Some(<<"rainandsnow">>), Some(<<":L:RS">>), Some(<<"wi-sleet">>)>>,
    <<59, <<"starker Sprühregen und Regen">>, <<"moderate or heavy drizzle and rain">>, None, Some(<<"rain", ".png">>), Some(<<>>), Some(<<"rain">>), Some(<<>>), Some(<<"wi-rain">>)>>,
    <<58, <<"leichter Sprühregen und Regen">>, <<"slight drizzle and rain">>, None, Some(<<"rain", ".png">>), Some(<<>>), Some(<<"rain">>), Some(<<>>), Some(<<"wi-rain">>)>>,
    <<55, <<"durchgehend starker Sprühregen">>, <<"heavy drizzle, not freezing, continuous">>, Some(18), Some(<<"drizzle", ".png">>), Some(<<"9", ".png">>), Some(<<"drizzle">>), Some(<<":H:L">>), Some(<<"wi-sprinkle">>)>>,
    <<54, <<"intermittierend starker Sprühregen">>, <<"heavy drizzle, not freezing, intermittent">>, None, Some(<<"drizzle", ".png">>), Some(<<"9", ".png">>), Some(<<"drizzle">>), Some(<<"IN:H:L">>), Some(<<"wi-sprinkle">>)>>,
    <<53, <<"durchgehend mäßiger Sprühregen">>, <<"moderate drizzle, not freezing, continuous">>, Some(19), Some(<<"drizzle", ".png">>), Some(<<"8", ".png">>), Some(<<"drizzle">>), Some(<<"::L">>), Some(<<"wi-sprinkle">>)>>,
    <<52, <<"intermittierend mäßiger Sprühregen">>, <<"moderate drizzle, not freezing, intermittent">>, None, Some(<<"drizzle", ".png">>), Some(<<"8", ".png">>), Some(<<"drizzle">>), Some(<<"IN::L">>), Some(<<"wi-sprinkle">>)>>,
    <<51, <<"durchgehend leichter Sprühregen">>, <<"slight drizzle, not freezing, continuous">>, Some(20), Some(<<"drizzle", ".png">>), Some(<<"7", ".png">>), Some(<<"drizzle">>), Some(<<":L:L">>), Some(<<"wi-sprinkle">>)>>,
    <<50, <<"intermittierend leichter Sprühregen">>, <<"slight drizzle, not freezing, intermittent">>, None, Some(<<"drizzle", ".png">>), Some(<<"7", ".png">>), Some(<<"drizzle">>), Some(<<"IN:L:L">>), Some(<<"wi-sprinkle">>)>>,
    <<65, <<"durchgehend starker Regen">>, <<"heavy rain, not freezing, continuous">>, Some(21), Some(<<"rain", ".png">>), Some(<<"9", ".png">>), Some(<<"rain">>), Some(<<":H:R">>), Some(<<"wi-rain">>)>>,
    <<64, <<"intermittierend starker Regen">>, <<"heavy rain, not freezing, intermittent">>, None, Some(<<"rain", ".png">>), Some(<<"9", ".png">>), Some(<<"rain">>), Some(<<"IN:H:R">>), Some(<<"wi-rain">>)>>,
    <<63, <<"durchgehend mäßiger Regen">>, <<"moderate rain, not freezing, continuous">>, Some(22), Some(<<"rain", ".png">>), Some(<<"8", ".png">>), Some(<<"rain">>), Some(<<"::R">>), Some(<<"wi-rain">>)>>,
    <<62, <<"intermittierend mäßiger Regen">>, <<"moderate rain, not freezing, intermittent">>, None, Some(<<"rain", ".png">>), Some(<<"8", ".png">>), Some(<<"rain">>), Some(<<"IN::R">>), Some(<<"wi-rain">>)>>,
    <<61, <<"durchgehend leichter Regen">>, <<"slight rain, not freezing, continuous">>, Some(23), Some(<<"rain", ".png">>), Some(<<"7", ".png">>), Some(<<"rain">>), Some(<<":L:R">>), Some(<<"wi-rain">>)>>,
    <<60, <<"intermittierend leichter Regen">>, <<"slight rain, not freezing, intermittent">>, None, Some(<<"rain", ".png">>), Some(<<"7", ".png">>), Some(<<"rain">>), Some(<<"IN:L:R">>), Some(<<"wi-rain">>)>>,
    <<78, <<"einzelne Schneeflocken, mit oder ohne Nebel">>, <<"isolated star-like snow crystals with or without fog">>, None, Some(<<"snow", ".png">>), Some(<<"14", ".png">>), Some(<<"snow">>), Some(<<":L:S">>), Some(<<"wi-snow">>)>>,
    <<77, <<"Schneegriesel, mit oder ohne Nebel">>, <<"snow grains with or without fog">>, None, Some(<<"snow", ".png">>), Some(<<"14", ".png">>), Some(<<"snow">>), Some(<<":L:S">>), Some(<<"wi-snow">>)>>,
    <<76, <<"Eisnadeln (auch Diamantstaub genannt), mit oder ohne Nebel">>, <<"diamond dust with our without fog">>, None, Some(<<"fog", ".png">>), Some(<<>>), Some(<<"dust">>), Some(<<>>), Some(<<"wi-fog">>)>>,
    <<49, <<"Nebel mit Reifansatz, Himmel nicht erkennbar, unverändert">>, <<"Ice Fog, sky not recognizable">>, Some(24), Some(<<"fog", ".png">>), Some(<<"48", ".png">>), Some(<<"fog">>), Some(<<"::IF">>), Some(<<"wi-fog">>)>>,
    <<48, <<"Nebel mit Reifansatz, Himmel erkennbar">>, <<"fog depositing rime, sky visible">>, None, Some(<<"fog", ".png">>), Some(<<"48", ".png">>), Some(<<"fog">>), Some(<<"::IF">>), Some(<<"wi-fog">>)>>,
    <<47, <<"Nebel oder Eisnebel, Himmel nicht erkennbar, zunehmend">>, <<"fog or ice fog, sky invisible, has become thicker">>, None, Some(<<"fog", ".png">>), Some(<<"48", ".png">>), Some(<<"fog">>), Some(<<"::IF">>), Some(<<"wi-fog">>)>>,
    <<46, <<"Nebel oder Eisnebel, Himmel erkennbar, zunehmend">>, <<"fog or ice fog, sky visible, has become thicker">>, None, Some(<<"fog", ".png">>), Some(<<"48", ".png">>), Some(<<"fog">>), Some(<<"::IF">>), Some(<<"wi-fog">>)>>,
    <<45, <<"Nebel, Himmel nicht erkennbar">>, <<"Fog, sky not recognizable">>, Some(25), Some(<<"fog", ".png">>), Some(<<"40", ".png">>), Some(<<"fog">>), Some(<<"::F">>), Some(<<"wi-fog">>)>>,
    <<44, <<"Nebel oder Eisnebel, Himmel erkennbar, unverändert">>, <<"fog or ice fog, sky visible, no change">>, None, Some(<<"fog", ".png">>), Some(<<"40", ".png">>), Some(<<"fog">>), Some(<<"::F">>), Some(<<"wi-fog">>)>>,
    <<43, <<"Nebel oder Eisnebel, Himmel nicht erkennbar, abnehmend">>, <<"fog or ice fog, sky invisible, has become thinner">>, None, Some(<<"fog", ".png">>), Some(<<"40", ".png">>), Some(<<"fog">>), Some(<<"::F">>), Some(<<"wi-fog">>)>>,
    <<42, <<"Nebel oder Eisnebel, Himmel erkennbar, abnehmend">>, <<"fog or ice fog, sky visible, has become thinner">>, None, Some(<<"fog", ".png">>), Some(<<"40", ".png">>), Some(<<"fog">>), Some(<<"::F">>), Some(<<"wi-fog">>)>>,
    <<41, <<"stellenweise Nebel oder Eisnebel">>, <<"fog or ice fog in patches">>, None, Some(<<"fog", ".png">>), Some(<<"40", ".png">>), Some(<<"fog">>), Some(<<"PA::F">>), Some(<<"wi-fog">>)>>,
    <<40, <<"Nebel oder Eisnebel in der Entfernung">>, <<"fog or ice fog at a distance">>, None, Some(<<"fog", ".png">>), Some(<<"40", ".png">>), Some(<<"fog">>), Some(<<"VC::F">>), Some(<<"wi-fog">>)>>,
    <<39, <<"starkes Schneefegen, oberhalb Augenhöhe">>, <<"heavy drifting snow, generally high (above eye level)">>, None, Some(<<"wind", ".png">>), Some(<<"18", ".png">>), Some(<<"blowingsnow">>), Some(<<":H:BS">>), Some(<<"wi-snow-wind">>)>>,
    <<38, <<"Schneefegen, oberhalb Augenhöhe">>, <<"slight or moderate blowing snow, generally high (above eye level)">>, None, Some(<<"wind", ".png">>), Some(<<"18", ".png">>), Some(<<"blowingsnow">>), Some(<<":L:BS">>), Some(<<"wi-snow-wind">>)>>,
    <<37, <<"starkes Schneefegen unterhalb Augenhöhe">>, <<"heavy drifting snow, generally low (below eye level">>, None, Some(<<"wind", ".png">>), Some(<<"18", ".png">>), Some(<<"blowingsnow">>), Some(<<":H:BS">>), Some(<<"wi-snow-wind">>)>>,
    <<36, <<"Schneefegen unterhalb Augenhöhe">>, <<"slight or moderate blowing snow, generally low (below eye level)">>, None, Some(<<"wind", ".png">>), Some(<<"18", ".png">>), Some(<<"blowingsnow">>), Some(<<":L:BS">>), Some(<<"wi-snow-wind">>)>>,
    <<35, <<"schwerer Staub- oder Sandsturm, zunehmend">>, <<"severe duststorm or sandstorm, increasing">>, None, Some(<<"wind", ".png">>), Some(<<"18", ".png">>), Some(<<"wind">>), Some(<<":H:BD">>), Some(<<"wi-sandstorm">>)>>,
    <<34, <<"schwerer Staub- oder Sandsturm, unverändert">>, <<"severe duststorm or sandstorm, no change">>, None, Some(<<"wind", ".png">>), Some(<<"18", ".png">>), Some(<<"wind">>), Some(<<":H:BD">>), Some(<<"wi-sandstorm">>)>>,
    <<33, <<"schwerer Staub- oder Sandsturm, abnehmend">>, <<"severe duststorm or sandstorm, decreasing">>, None, Some(<<"wind", ".png">>), Some(<<"18", ".png">>), Some(<<"wind">>), Some(<<":H:BD">>), Some(<<"wi-sandstorm">>)>>,
    <<32, <<"leichter oder mittlerer Staub- oder Sandsturm, zunehmend">>, <<"slight or moderate duststorm or sandstorm, increasing">>, None, Some(<<"wind", ".png">>), Some(<<"18", ".png">>), Some(<<"wind">>), Some(<<":L:BD">>), Some(<<"wi-sandstorm">>)>>,
    <<31, <<"leichter oder mittlerer Staub- oder Sandsturm, unverändert">>, <<"slight or moderate duststorm or sandstorm, no change">>, None, Some(<<"wind", ".png">>), Some(<<"18", ".png">>), Some(<<"wind">>), Some(<<":L:BD">>), Some(<<"wi-sandstorm">>)>>,
    <<30, <<"leichter oder mittlerer Staub- oder Sandsturm, abnehmend">>, <<"slight or moderate duststorm or sandstorm, decreasing">>, None, Some(<<"wind", ".png">>), Some(<<"18", ".png">>), Some(<<"wind">>), Some(<<":L:BD">>), Some(<<"wi-sandstorm">>)>>,
    <<18, <<"Böen">>, <<"squalls">>, None, Some(<<"wind", ".png">>), Some(<<"18", ".png">>), Some(<<"wind">>), Some(<<>>), Some(<<"wi-strong-wind">>)>>,
    <<17, <<"Gewitter ohne Niederschlag">>, <<"thunderstorm, but no precipitation">>, None, Some(<<"thunderstorm", ".png">>), Some(<<"26", ".png">>), Some(<<"tstorm">>), Some(<<"VC::T">>), Some(<<"wi-lightning">>)>>,
    <<16, <<"Niederschläge in Sichtweite aber nicht an der Station, den Boden erreichend">>, <<"Precipitation within sight, reaching the ground or the surface of the sea, near to, but not at the station">>, None, None, None, None, None, None>>,
    <<15, <<"Niederschläge in Sichtweite, aber entfernt, den Boden erreichend">>, <<"Precipitation within sight, reaching the ground or the surface of the sea, but distant, i.e.  estimated to be more than 5 km from the station">>, None, None, None, None, None, None>>,
    <<14, <<"Niederschläge in Sichtweite, nicht den Boden erreichend">>, <<"Precipitation within sight, not reaching the ground or the surface of the sea">>, None, None, None, None, None, None>>,
    <<13, <<"Wetterleuchten">>, <<"lightning visible, no thunder heard">>, None, None, Some(<<"26", ".png">>), None, Some(<<"VC::T">>), Some(<<"wi-lightning">>)>>,
    <<12, <<"flacher Nebel">>, <<"shallow fog or ice fog">>, None, Some(<<"fog", ".png">>), Some(<<"40", ".png">>), Some(<<"fog">>), Some(<<"::BR">>), Some(<<>>)>>,
    <<11, <<"Nebelschwaden">>, <<"patches of fog or ice fog">>, None, Some(<<"fog", ".png">>), Some(<<"40", ".png">>), Some(<<"fog">>), Some(<<"PA::BR">>), Some(<<"wi-fog">>)>>,
    <<10, <<"feuchter Dunst">>, <<"mist">>, None, None, None, Some(<<"fog">>), Some(<<"::BR">>), Some(<<"wi-fog">>)>>,
    <<9, <<"Staub- oder Sandsturm in Sichtweite">>, <<"duststorm or sandstorm in sight">>, None, Some(<<"wind", ".png">>), Some(<<"18", ".png">>), Some(<<"wind">>), Some(<<"VC::BD">>), Some(<<"wi-sandstorm">>)>>,
    <<8, <<"kleine Wirbel mit Staub oder Sand">>, <<"well developed dust whirl(s) or sand whirls(s)">>, None, None, None, None, Some(<<"VC::BD">>), Some(<<"wi-windy">>)>>,
    <<7, <<"Staub oder Sand aufgewirbelt in der Luft">>, <<"dust or sand raised by wind">>, None, None, None, Some(<<"dust">>), Some(<<"::BD">>), Some(<<"wi-windy">>)>>,
    <<6, <<"Staub in der Luft, kein Wind">>, <<"widespread dust in suspension in the air, not raised by wind">>, None, None, None, Some(<<"dust">>), Some(<<"::H">>), Some(<<"wi-dust">>)>>,
    <<5, <<"trockener Dunst">>, <<"haze">>, None, None, None, Some(<<"hazy">>), Some(<<"::H">>), Some(<<"wi-dust">>)>>,
    <<4, <<"durch Rauch oder Vulkanasche eingeschränkte Sicht">>, <<"visbility reduced by smoke or volcanic ashes">>, None, Some(<<"fog", ".png">>), Some(<<"40", ".png">>), Some(<<"smoke">>), Some(<<"::K">>), Some(<<"wi-smog">>)>>,
    <<29, <<"nach Gewitter">>, <<"after thunderstorm">>, None, None, None, None, Some(<<"::T">>), Some(<<>>)>>,
    <<28, <<"nach Nebel oder Eisnebel">>, <<"after fog or ice fog">>, None, None, None, None, Some(<<"::F">>), Some(<<>>)>>,
    <<27, <<"nach Hagelschauer">>, <<"after shower(s) of hail">>, None, None, None, None, Some(<<"::A">>), Some(<<>>)>>,
    <<26, <<"nach Schneeschauer">>, <<"after shower(s) of snow or rain and snow">>, None, None, None, None, Some(<<"::SW">>), Some(<<>>)>>,
    <<25, <<"nach Regenschauer">>, <<"after shower(s) of rain">>, None, None, None, None, Some(<<"::RW">>), Some(<<>>)>>,
    <<23, <<"nach Schneeregen">>, <<"after rain and snow or ice pellets">>, None, None, None, None, Some(<<"::SI">>), Some(<<>>)>>,
    <<22, <<"nach Schneefall">>, <<"after snow fall">>, None, None, None, None, Some(<<"::S">>), Some(<<>>)>>,
    <<21, <<"nach Regen">>, <<"after rain">>, None, None, None, None, Some(<<"::R">>), Some(<<>>)>>,
    <<20, <<"nach Sprühregen">>, <<"after drizzle">>, None, None, None, None, Some(<<"::L">>), Some(<<>>)>>,
    <<3, <<"Bewölkung zunehmend">>, <<"Clouds generally forming or developing">>, Some(26), None, None, None, None, None>>,
    <<2, <<"Bewölkung unverändert">>, <<"State of sky on the whole unchanged">>, Some(27), None, None, None, None, None>>,
    <<1, <<"Bewölkung abnehmend">>, <<"Clouds generally dissolving or becoming less developed">>, Some(28), None, None, None, None, None>>,
    <<0, <<"keine Bewölkungsentwicklung">>, <<"no cloud cover development">>, Some(29), None, None, None, None, None>>
  >>

(* N_ICON_LIST of weathercodes.py: Belchertown day, night, DWD, Aeris      *)
(* code, Aeris icon, weather-icons day, night                              *)
N_ICON_LIST_src ==
  <<
    << <<"clear-day", ".png">>, <<"clear-night", ".png">>, <<"0-8", ".png">>, <<"::CL">>, <<"clear">>, <<"wi-day-sunny">>, <<"wi-night-clear">> >>,
    << <<"mostly-clear-day", ".png">>, <<"mostly-clear-night", ".png">>, <<"2-8", ".png">>, <<"::FW">>, <<"fair">>, <<"wi-day-sunny-overcast">>, <<"wi-night-alt-partly-cloudy">> >>,
    << <<"partly-cloudy-day", ".png">>, <<"partly-cloudy-night", ".png">>, <<"5-8", ".png">>, <<"::SC">>, <<"pcloudy">>, <<"wi-day-cloudy">>, <<"wi-night-cloudy">> >>,
    << <<"mostly-cloudy-day", ".png">>, <<"mostly-cloudy-night", ".png">>, <<"5-8", ".png">>, <<"::BK">>, <<"mcloudy">>, <<"wi-day-cloudy">>, <<"wi-night-cloudy">> >>,
    << <<"cloudy", ".png">>, <<"cloudy", ".png">>, <<"8-8", ".png">>, <<"::OV">>, <<"cloudy">>, <<"wi-cloudy">>, <<"wi-cloudy">> >>
  >>

(* cloud cover icons of weatherservices.py: Belchertown day, night, DWD,   *)
(* Aeris code, Aeris icon                                                  *)
N_ICON_LIST_ws ==
  <<
    << <<"clear-day", ".png">>, <<"clear-night", ".png">>, <<"0-8", ".png">>, <<"CL">>, <<"clear">> >>,
    << <<"mostly-clear-day", ".png">>, <<"mostly-clear-night", ".png">>, <<"2-8", ".png">>, <<"FW">>, <<"fair">> >>,
    << <<"partly-cloudy-day", ".png">>, <<"partly-cloudy-night", ".png">>, <<"5-8", ".png">>, <<"SC">>, <<"pcloudy">> >>,
    << <<"mostly-cloudy-day", ".png">>, <<"mostly-cloudy-night", ".png">>, <<"5-8", ".png">>, <<"BK">>, <<"mcloudy">> >>,
    << <<"cloudy", ".png">>, <<"cloudy", ".png">>, <<"8-8", ".png">>, <<"OV">>, <<"cloudy">> >>
  >>

(* cloud cover icons of dwd.py, same layout as in weatherservices.py       *)
N_ICON_LIST_dwd ==
  <<
    << <<"clear-day", ".png">>, <<"clear-night", ".png">>, <<"0-8", ".png">>, <<"CL">>, <<"clear">> >>,
    << <<"mostly-clear-day", ".png">>, <<"mostly-clear-night", ".png">>, <<"2-8", ".png">>, <<"FW">>, <<"fair">> >>,
    << <<"partly-cloudy-day", ".png">>, <<"partly-cloudy-night", ".png">>, <<"5-8", ".png">>, <<"SC">>, <<"pcloudy">> >>,
    << <<"mostly-cloudy-day", ".png">>, <<"mostly-cloudy-night", ".png">>, <<"5-8", ".png">>, <<"BK">>, <<"mcloudy">> >>,
    << <<"cloudy", ".png">>, <<"cloudy", ".png">>, <<"8-8", ".png">>, <<"OV">>, <<"cloudy">> >>
  >>

(* WMO 4677 symbols: one opaque vector graphic per code 0..99 *)
WW_SYMBOLS == [k \in 0..99 |-> <<"wmo4677_ww", k>>]

(* WMO 4680 symbols; the reserved codes have None *)
WAWA_SYMBOLS ==
  [k \in 0..99 |->
     IF k \in {6, 7, 8, 9, 13, 14, 15, 16, 17, 19, 36, 37, 38, 39, 49, 59, 69,
               79, 88, 97, 98}
     THEN None ELSE <<"wmo4680_wawa", k>>]

(* WMO 4561 symbols W1 W2 *)
W_SYMBOLS ==
  [k \in 0..9 |->
     CASE k \in {0, 1, 2} -> None
       [] k = 3 -> WW_SYMBOLS[38]
       [] k = 4 -> WW_SYMBOLS[45]
       [] k = 9 -> WW_SYMBOLS[17]
       [] OTHER -> <<"wmo4561_W", k>>]

(* WMO 4531 symbols Wa1 Wa2 *)
WA_SYMBOLS ==
  [k \in 0..9 |->
     CASE k = 0 -> WAWA_SYMBOLS[0]
       [] k = 1 -> <<"wmo4531_Wa", 1>>
       [] k = 2 -> W_SYMBOLS[3]
       [] k = 3 -> W_SYMBOLS[4]
       [] k = 4 -> WAWA_SYMBOLS[40]
       [] k = 9 -> WW_SYMBOLS[17]
       [] OTHER -> W_SYMBOLS[k]]

(* WMO 2700 symbols: 0/8 .. 9/8 and 'no data' *)
OKTA_SYMBOLS == [k \in 0..10 |-> <<"wmo2700_n", k>>]

WMO_TABLES ==
  (2700 :> OKTA_SYMBOLS) @@ (4561 :> W_SYMBOLS) @@ (4531 :> WA_SYMBOLS)
    @@ (4677 :> WW_SYMBOLS) @@ (4680 :> WAWA_SYMBOLS)

(***************************************************************************)
(* Bounds of the checked inputs                                            *)
(***************************************************************************)
MaxCand == 2        \* candidate sets hold at most MaxCand codes
MaxBad == 1         \* out-of-domain codes -MaxBad..-1 and 100..99+MaxBad
MaxStep == 1        \* cloud cover values within MaxStep/1000 % of each edge
MaxSamples == 3     \* the lists of pressure samples hold at most MaxSamples
MaxHpa == 3         \* hourly barometer readings from 1000 to 1000+MaxHpa hPa
MaxKph == 400       \* wind speeds up to MaxKph km/h (216 kn)
MaxFields == 2      \* fields of a station model besides its symbols
MaxRows == 2        \* data lines of a reply of a provider

(***************************************************************************)
(* State: the priority list and the call in progress.  WW_LIST is a Python *)
(* list of immutable tuples with distinct ww codes: what a call could      *)
(* change in place is which entries the list holds in which order, so the  *)
(* variable holds the ww codes of the entries, in list order.              *)
(* printed is a history variable: print_ww_list has been called.           *)
(* args holds the positional arguments of a call of visibility_code or     *)
(* pressure_tendency_bufr, p_list the list object that the caller hands to *)
(* pressure_tendency, first the result of the first call on that list.     *)
(***************************************************************************)
VARIABLES WW_LIST, printed, op, ww, n, night, lang, attr, out,
          args, p_list, first,
          thread, data, maxtime, last_get_ts, record, got, step

vars == <<WW_LIST, printed, op, ww, n, night, lang, attr, out, args, p_list, first,
          thread, data, maxtime, last_get_ts, record, got, step>>

(* the state of the calls of the functions and binders, and the state of   *)
(* the service: its thread with self.data, self.maxtime and                *)
(* self.last_get_ts, the archive record of the last event, what get_data   *)
(* returned to it, and the last step taken                                 *)
calls_vars == <<WW_LIST, printed, op, ww, n, night, lang, attr, out, args, p_list, first>>
service_vars == <<thread, data, maxtime, last_get_ts, record, got, step>>

(* the arguments and the list of the caller of the WMO code functions *)
caller_vars == <<args, p_list, first>>

(* the ww codes of the list as written in the source, in list order *)
WW_LIST_order == [i \in 1..Len(WW_LIST_src) |-> WW_LIST_src[i][1]]

(* the tuple of WW_LIST with the ww code c *)
WW_LIST_by_code ==
  [c \in Range(WW_LIST_order) |->
     WW_LIST_src[CHOOSE i \in 1..Len(WW_LIST_src) : WW_LIST_src[i][1] = c]]
WW_LIST_entry(c) == WW_LIST_by_code[c]

(***************************************************************************)
(* String helpers                                                          *)
(***************************************************************************)
RECURSIVE Digits(_)
(* decimal digits of a natural number, '%d' *)
Digits(k) ==
  LET d == <<"0", "1", "2", "3", "4", "5", "6", "7", "8", "9">>[(k % 10) + 1]
  IN IF k < 10 THEN <<d>> ELSE Append(Digits(k \div 10), d)

(* '%.0f%%' % float(n): round half to even, no decimals, percent sign *)
format_n_str(x) ==
  LET ip == x.m \div 1000
      fr == x.m % 1000
      r  == IF fr > 500 \/ (fr = 500 /\ ip % 2 = 1) THEN ip + 1 ELSE ip
  IN Append(Digits(r), "%")

(* str(n): an int prints its digits, a float at least one decimal *)
str(x) ==
  LET ip == x.m \div 1000
      fr == x.m % 1000
      d3 == <<(fr \div 100) % 10, (fr \div 10) % 10, fr % 10>>
      k  == IF d3[3] # 0 THEN 3 ELSE IF d3[2] # 0 THEN 2 ELSE 1
  IN IF x.int THEN Digits(ip)
     ELSE Digits(ip) \o <<".">> \o [i \in 1..k |-> Digits(d3[i])[1]]

(* s.replace(old, new) on an optional str; None has no replace *)
replace(o, old, new) ==
  IF IsNone(o) THEN Raise("AttributeError")
  ELSE Ok([i \in 1..Len(Val(o)) |-> IF Val(o)[i] = old THEN new ELSE Val(o)[i]])

(***************************************************************************)
(* weathercodes.get_cloudcover                                             *)
(***************************************************************************)
(* variant: 118.75 still belongs to the fog band, n<=118.75 *)
get_cloudcover_in_fog_le(NL, x) ==
  IF IsNone(x) THEN None
  ELSE LET v == Val(x).m IN
    Some(IF v < 7000 THEN NL[1]
         ELSE IF v < 32000 THEN NL[2]
         ELSE IF v < 70000 THEN NL[3]
         ELSE IF v < 95000 THEN NL[4]
         ELSE IF v < 106250 THEN NL[5]
         ELSE IF v <= 118750
           THEN << <<"fog", ".png">>, <<"fog", ".png">>, <<"40", ".png">>, <<"::BR">>, <<"fog">>, <<"wi-fog">>, <<"wi-fog">> >>
           ELSE << <<"unknown", ".png">>, <<"unknown", ".png">>, <<>>, <<"::">>, <<"na">>, <<"wi-na">>, <<"wi-na">> >>)

(* get_cloudcover reading the cloud cover icons from the list NL *)
get_cloudcover_in(NL, x) ==
  IF IsNone(x) THEN None
  ELSE LET v == Val(x).m IN
    Some(IF v < 7000 THEN NL[1]
         ELSE IF v < 32000 THEN NL[2]
         ELSE IF v < 70000 THEN NL[3]
         ELSE IF v < 95000 THEN NL[4]
         ELSE IF v < 106250 THEN NL[5]
         ELSE IF v < 118750
           THEN << <<"fog", ".png">>, <<"fog", ".png">>, <<"40", ".png">>, <<"::BR">>, <<"fog">>, <<"wi-fog">>, <<"wi-fog">> >>
           ELSE << <<"unknown", ".png">>, <<"unknown", ".png">>, <<>>, <<"::">>, <<"na">>, <<"wi-na">>, <<"wi-na">> >>)

get_cloudcover(x) == get_cloudcover_in(N_ICON_LIST_src, x)

(* weatherservices.get_cloudcover: no None check, five bands only *)
get_cloudcover_ws(x) ==
  IF IsNone(x) THEN Raise("TypeError")
  ELSE LET v == Val(x).m IN
    Ok(IF v < 7000 THEN N_ICON_LIST_ws[1]
       ELSE IF v < 32000 THEN N_ICON_LIST_ws[2]
       ELSE IF v < 70000 THEN N_ICON_LIST_ws[3]
       ELSE IF v < 95000 THEN N_ICON_LIST_ws[4]
       ELSE N_ICON_LIST_ws[5])

(* variant: the edges belong to the lower band *)
get_cloudcover_dwd_le(x) ==
  IF IsNone(x) THEN Raise("TypeError")
  ELSE LET v == Val(x).m IN
    Ok(IF v <= 7000 THEN N_ICON_LIST_dwd[1]
       ELSE IF v <= 32000 THEN N_ICON_LIST_dwd[2]
       ELSE IF v <= 70000 THEN N_ICON_LIST_dwd[3]
       ELSE IF v <= 95000 THEN N_ICON_LIST_dwd[4]
       ELSE N_ICON_LIST_dwd[5])

(* dwd.get_cloudcover: no None check, five bands only *)
get_cloudcover_dwd(x) ==
  IF IsNone(x) THEN Raise("TypeError")
  ELSE LET v == Val(x).m IN
    Ok(IF v < 7000 THEN N_ICON_LIST_dwd[1]
       ELSE IF v < 32000 THEN N_ICON_LIST_dwd[2]
       ELSE IF v < 70000 THEN N_ICON_LIST_dwd[3]
       ELSE IF v < 95000 THEN N_ICON_LIST_dwd[4]
       ELSE N_ICON_LIST_dwd[5])

(***************************************************************************)
(* weathercodes.get_ww                                                     *)
(***************************************************************************)
(* variant: the entry of the highest candidate code is taken *)
WW_LIST_find_max(L, cand, i) ==
  LET c == CHOOSE a \in cand : \A b \in cand : b <= a
      M == {j \in i..Len(L) : L[j] = c}
  IN IF cand = {} \/ M = {} THEN 0 ELSE CHOOSE j \in M : TRUE

(* variant: the loop starts behind the first entry, WW_LIST[1:] *)
WW_LIST_find_skip(L, cand, i) ==
  LET M == {j \in (i + 1)..Len(L) : L[j] \in cand}
  IN IF M = {} THEN 0 ELSE CHOOSE j \in M : \A k \in M : j <= k

(* variant: the loop does not break, the last match is taken *)
WW_LIST_find_nobreak(L, cand, i) ==
  LET M == {j \in i..Len(L) : L[j] \in cand}
  IN IF M = {} THEN 0 ELSE CHOOSE j \in M : \A k \in M : k <= j

RECURSIVE WW_LIST_find(_, _, _)
(* for ii in WW_LIST: if ii[0] in ww: ... break, from the i-th entry of    *)
(* the list L on; 0 stands for the else branch of the loop                 *)
WW_LIST_find(L, cand, i) ==
  IF i > Len(L) THEN 0
  ELSE IF L[i] \in cand THEN i
  ELSE WW_LIST_find(L, cand, i + 1)

(* variant: the sentinel carries no severity, like most entries *)
ww_nodata_nosev ==
  <<0, <<>>, <<>>, None, Some(<<"unknown", ".png">>), Some(<<"unknown", ".png">>),
    Some(<<"na", ".png">>), Some(<<>>), Some(<<"wi_na">>), WW_SYMBOLS[0]>>

(* the sentinel of the for loop's else branch *)
ww_nodata ==
  <<0, <<>>, <<>>, Some(30), Some(<<"unknown", ".png">>), Some(<<"unknown", ".png">>),
    Some(<<"na", ".png">>), Some(<<>>), Some(<<"wi_na">>), WW_SYMBOLS[0]>>

(* variant: squalls (18) are handed over as well, as in SVGIconBinder *)
ww_uses_cloudcover_18(code) ==
  code <= 3 \/ (code >= 20 /\ code < 30) \/ code \in {14, 15, 16, 18}

(* the test that hands the icons over to the cloud cover *)
ww_uses_cloudcover(code) ==
  code <= 3 \/ (code >= 20 /\ code < 30) \/ code \in {14, 15, 16}

(* variant: the DWD icon is the one of the band of get_cloudcover *)
ww_dwd_icon_band(NL, v) == Val(get_cloudcover_in(NL, Some(Float_(v))))[3]

(* the DWD icon of the cloud cover v (in 1/1000 %), by octas *)
ww_dwd_icon(NL, v) ==
  IF v < 12500 THEN NL[1][3]
  ELSE IF v < 50000 THEN NL[2][3]
  ELSE IF v < 87500 THEN NL[3][3]
  ELSE NL[5][3]

(* get_ww reading the lists L (WW_LIST) and NL (N_ICON_LIST) *)
get_ww_in(L, NL, cand, x, ni) ==
  LET i == WW_LIST_find(L, cand, 1)
      wwcode == IF i > 0 THEN Append(WW_LIST_entry(L[i]), WW_SYMBOLS[L[i]])
                ELSE ww_nodata
      cover == get_cloudcover_in(NL, x)
  IN IF ww_uses_cloudcover(wwcode[1]) /\ ~IsNone(cover)
     THEN LET nightIdx == IF ni THEN 1 ELSE 0
              c == Val(cover)
              v == Val(x).m
              icon == c[nightIdx + 1]
              aeicon == c[5]
              aecode == <<"::">> \o c[4]
              dwd == ww_dwd_icon(NL, v)
              n_str == format_n_str(Val(x))
              wi == c[nightIdx + 6]
          IN <<wwcode[1],
               wwcode[2] \o <<" ">> \o n_str,
               wwcode[3] \o <<" ">> \o str(Val(x)),
               wwcode[4], Some(icon), Some(dwd), Some(aeicon), Some(aecode), Some(wi),
               WW_SYMBOLS[wwcode[1]]>>
     ELSE wwcode

get_ww(cand, x, ni) == get_ww_in(WW_LIST, N_ICON_LIST_src, cand, x, ni)

(***************************************************************************)
(* weathercodes.PresentWeatherBinder, the branch for a list of ww codes    *)
(***************************************************************************)
(* weeutil.weeutil.to_int as used by __init__: None stays None, a number   *)
(* is truncated to an int                                                  *)
to_int(x) == IF IsNone(x) THEN None ELSE Some(Int_(Val(x).m \div 1000))

(* _get_ww_text without user supplied texts (ww_texts is None) *)
_get_ww_text(lg, wwcode) == IF lg = "de" THEN wwcode[2] ELSE wwcode[3]

svg_icon_filename(wwcode, nn, ni) ==
  IF wwcode[1] = 18 /\ ~IsNone(nn)
    THEN replace(get_ww({0}, nn, ni)[5], ".png", "-wind.svg")
  ELSE IF wwcode[1] = 96 THEN Ok(<<"thunderstorm-hail", ".svg">>)
  ELSE IF wwcode[1] \in {13, 17} THEN Ok(<<"lightning", ".svg">>)
  ELSE IF wwcode[1] \in {56, 57, 66, 67} THEN Ok(<<"freezingrain", ".svg">>)
  ELSE replace(wwcode[5], ".png", ".svg")

(* PresentWeatherBinder(wwl, n, night, lang).<at> for a list wwl *)
__getattr__(wwl, x, ni, lg, at) ==
  LET nn == to_int(x)
      wwcode == get_ww(wwl, nn, ni)
  IN CASE at = "ww" -> Ok(wwcode[1])
       [] at = "text" -> Ok(_get_ww_text(lg, wwcode))
       [] at = "mosmix_priority" -> Ok(wwcode[4])
       [] at = "belchertown_icon" -> Ok(wwcode[5])
       [] at = "dwd_icon" -> Ok(wwcode[6])
       [] at = "aeris_icon" ->
            Ok(IF Truthy(wwcode[7])
               THEN Val(wwcode[7]) \o (IF ni THEN <<"n">> ELSE <<>>) \o <<".png">>
               ELSE <<"na", ".png">>)
       [] at = "wi_icon" ->
            Ok(<<"<i class=\"wi ">>
               \o (IF Truthy(wwcode[9]) THEN Val(wwcode[9]) ELSE <<"wi-na">>)
               \o <<"\"></i>">>)
       [] at = "svg_icon_filename" -> svg_icon_filename(wwcode, nn, ni)
       [] OTHER -> Raise("AttributeError")

(***************************************************************************)
(* weathercodes.print_ww_list: the rows of the table, one per entry of a   *)
(* sorted copy of WW_LIST: ww, symbol, image (if any), German text         *)
(***************************************************************************)
(* list.sort(key=lambda x:x[0]) on a list of entries with distinct codes *)
sort_by_ww(l) ==
  [i \in 1..Len(l) |->
     CHOOSE c \in Range(l) : Cardinality({d \in Range(l) : d < c}) = i - 1]

print_ww_list_rows(x) ==
  [i \in 1..Len(x) |->
     LET e == WW_LIST_entry(x[i])
     IN <<Digits(e[1] \div 10) \o Digits(e[1] % 10), WW_SYMBOLS[e[1]],
          IF Truthy(e[5]) THEN e[5] ELSE None, e[2]>>]

(* variant: WW_LIST itself is sorted, not a copy *)
print_ww_list_inplace ==
  LET x == sort_by_ww(WW_LIST)
  IN [result |-> print_ww_list_rows(x), WW_LIST |-> x]

(* the table that print_ww_list returns and the WW_LIST it leaves behind *)
print_ww_list ==
  LET x == sort_by_ww(WW_LIST)
  IN [result |-> print_ww_list_rows(x), WW_LIST |-> WW_LIST]

(* print_ww_tab: the cells of the ww table, in the order of WW_SYMBOLS *)
print_ww_tab == [k \in 0..99 |-> WW_SYMBOLS[k]]

(***************************************************************************)
(* weathercodes.visibility_code; the visibility is a number in metres, the *)
(* result a str of one token per character                                 *)
(***************************************************************************)
(* round(num/den, 0) for den > 0: to the nearest integer, a tie to the     *)
(* even one                                                                *)
round(num, den) ==
  LET q == num \div den
      r == num % den
  IN IF 2 * r > den \/ (2 * r = den /\ q % 2 = 1) THEN q + 1 ELSE q

(* '%02d' % k *)
format_02d(k) ==
  IF k < 0 THEN <<"-">> \o Digits(0 - k)
  ELSE IF k < 10 THEN <<"0">> \o Digits(k)
  ELSE Digits(k)

(* str + int, as in ('%02d' % vv)+50 *)
str_plus_int(t, k) == Raise("TypeError")

(* variant: the hundreds of metres are cut off, int(visibility*0.01) *)
visibility_code_trunc(visibility) ==
  LET vv == visibility.m \div 100000 IN
  IF vv <= 50 THEN Ok(format_02d(vv))
  ELSE IF vv <= 55 THEN Ok(<<"5", "0">>)
  ELSE LET vv2 == round(visibility.m, 1000) IN
    IF vv2 <= 30 THEN str_plus_int(format_02d(vv2), 50)
    ELSE LET vv3 == round(visibility.m, 5000) IN
      IF vv3 <= 14 THEN str_plus_int(format_02d(vv3), 74)
      ELSE Ok(<<"8", "9">>)

(* variant: the second and third step count kilometres, visibility/1000 *)
visibility_code_km(visibility) ==
  LET vv == round(visibility.m, 100000) IN
  IF vv <= 50 THEN Ok(format_02d(vv))
  ELSE IF vv <= 55 THEN Ok(<<"5", "0">>)
  ELSE LET km == round(visibility.m, 1000000) IN
    IF km <= 30 THEN str_plus_int(format_02d(km), 50)
    ELSE LET steps == round(visibility.m, 5000000) IN
      IF steps <= 14 THEN str_plus_int(format_02d(steps), 74)
      ELSE Ok(<<"8", "9">>)

visibility_code(visibility) ==
  LET vv == round(visibility.m, 100000) IN
  IF vv <= 50 THEN Ok(format_02d(vv))
  ELSE IF vv <= 55 THEN Ok(<<"5", "0">>)
  ELSE LET vv2 == round(visibility.m, 1000) IN
    IF vv2 <= 30 THEN str_plus_int(format_02d(vv2), 50)
    ELSE LET vv3 == round(visibility.m, 5000) IN
      IF vv3 <= 14 THEN str_plus_int(format_02d(vv3), 74)
      ELSE Ok(<<"8", "9">>)

(***************************************************************************)
(* weathercodes.pressure_tendency; a sample is <<timestamp, pressure>>,    *)
(* the timestamp in seconds, the pressure None or Some(p), p in 1/100 hPa  *)
(***************************************************************************)
(* the orders in which the elements of the list l can stand *)
Permutations_of(l) ==
  {[i \in 1..Len(l) |-> l[f[i]]] :
     f \in {g \in [1..Len(l) -> 1..Len(l)] : \A i, j \in 1..Len(l) : g[i] = g[j] => i = j}}

(* p_list.sort(key=lambda x:x[1]) on samples with numeric pressures: the   *)
(* sort is stable                                                          *)
sort_by_pressure(l) ==
  LET before(j, i) == \/ Val(l[j][2]) < Val(l[i][2])
                      \/ (Val(l[j][2]) = Val(l[i][2]) /\ j < i)
      pos(i) == Cardinality({j \in 1..Len(l) : before(j, i)}) + 1
  IN [k \in 1..Len(l) |-> l[CHOOSE i \in 1..Len(l) : pos(i) = k]]

(* round(p,1) of an optional pressure, in 1/10 hPa *)
round1(o) == round(Val(o), 10)

(* variant: the test for code 3 stands in front of the test for code 2 *)
tendency_code_3_first(p3h, p0h, pmin, pmax) ==
  IF ~IsNone(p3h) /\ ~IsNone(p0h) THEN
    IF round1(p3h) = round1(p0h) THEN Some(4)
    ELSE IF ~IsNone(pmin) /\ ~IsNone(pmax) THEN
      LET r3 == round1(p3h)
          r0 == round1(p0h)
          lo == round1(pmin)
          hi == round1(pmax)
      IN IF r0 > r3 /\ lo <= r0 THEN Some(3)
         ELSE IF lo = r3 /\ hi = r0 THEN Some(2)
         ELSE IF lo = r0 /\ hi = r3 THEN Some(7)
         ELSE IF r0 <= r3 /\ lo < r0 THEN Some(5)
         ELSE IF r0 < r3 /\ hi >= r3 THEN Some(8)
         ELSE IF r0 < r3 /\ lo = r0 THEN Some(6)
         ELSE IF r0 > r3 /\ hi = r0 THEN Some(1)
         ELSE None
    ELSE None
  ELSE None

(* variant: the test for code 1 stands in front of the test for code 3 *)
tendency_code_1_first(p3h, p0h, pmin, pmax) ==
  IF ~IsNone(p3h) /\ ~IsNone(p0h) THEN
    IF round1(p3h) = round1(p0h) THEN Some(4)
    ELSE IF ~IsNone(pmin) /\ ~IsNone(pmax) THEN
      LET r3 == round1(p3h)
          r0 == round1(p0h)
          lo == round1(pmin)
          hi == round1(pmax)
      IN IF lo = r3 /\ hi = r0 THEN Some(2)
         ELSE IF lo = r0 /\ hi = r3 THEN Some(7)
         ELSE IF r0 > r3 /\ hi = r0 THEN Some(1)
         ELSE IF r0 > r3 /\ lo <= r0 THEN Some(3)
         ELSE IF r0 <= r3 /\ lo < r0 THEN Some(5)
         ELSE IF r0 < r3 /\ hi >= r3 THEN Some(8)
         ELSE IF r0 < r3 /\ lo = r0 THEN Some(6)
         ELSE None
    ELSE None
  ELSE None

(* the code of the first, last, lowest and highest pressure *)
tendency_code(p3h, p0h, pmin, pmax) ==
  IF ~IsNone(p3h) /\ ~IsNone(p0h) THEN
    IF round1(p3h) = round1(p0h) THEN Some(4)
    ELSE IF ~IsNone(pmin) /\ ~IsNone(pmax) THEN
      LET r3 == round1(p3h)
          r0 == round1(p0h)
          lo == round1(pmin)
          hi == round1(pmax)
      IN IF lo = r3 /\ hi = r0 THEN Some(2)
         ELSE IF lo = r0 /\ hi = r3 THEN Some(7)
         ELSE IF r0 > r3 /\ lo <= r0 THEN Some(3)
         ELSE IF r0 <= r3 /\ lo < r0 THEN Some(5)
         ELSE IF r0 < r3 /\ hi >= r3 THEN Some(8)
         ELSE IF r0 < r3 /\ lo = r0 THEN Some(6)
         ELSE IF r0 > r3 /\ hi = r0 THEN Some(1)
         ELSE None
    ELSE None
  ELSE None

(* pressure_tendency(l): the result and the lists that the list object of  *)
(* the caller can hold afterwards.  A list without elements has no         *)
(* p_list[-1]; None does not compare with a number or with None, and a     *)
(* sort that fails leaves the list in some order; a list of one sample     *)
(* spans no time, p0htime-p3htime is 0                                     *)
pressure_tendency(l) ==
  IF Len(l) = 0 THEN [result |-> Raise("IndexError"), p_list |-> {l}]
  ELSE
    LET p0h == l[Len(l)][2]
        p3h == l[1][2]
        p0htime == l[Len(l)][1]
        p3htime == l[1][1]
    IN IF Len(l) >= 2 /\ \E i \in 1..Len(l) : IsNone(l[i][2])
       THEN [result |-> Raise("TypeError"), p_list |-> Permutations_of(l)]
       ELSE
         LET sorted == IF Len(l) = 1 THEN l ELSE sort_by_pressure(l)
             pmax == sorted[Len(l)][2]
             pmin == sorted[1][2]
         IN IF p0htime = p3htime
            THEN [result |-> Raise("ZeroDivisionError"), p_list |-> {sorted}]
            ELSE [result |-> Ok(tendency_code(p3h, p0h, pmin, pmax)),
                  p_list |-> {sorted}]

(***************************************************************************)
(* weathercodes.pressure_tendency_bufr; a pressure is None or Some(p), p   *)
(* in 1/100 hPa.  The differences are exact here; those of the floats of   *)
(* the code have the same sign unless two differences that are equal in    *)
(* decimal differ in the last bit, which the pressures drawn below do not  *)
(***************************************************************************)
(* variant: falling and then steady is 5, as falling and then rising *)
A_falling_steady_5 ==
     << 1,  1,  1>> :> 3
  @@ << 1,  1,  0>> :> 3
  @@ << 1,  1, -1>> :> 3
  @@ << 1,  0,  1>> :> 2
  @@ << 1,  0,  0>> :> 2
  @@ << 1,  0, -1>> :> 2
  @@ << 1, -1,  1>> :> 1
  @@ << 1, -1,  0>> :> 1
  @@ << 1, -1, -1>> :> 0
  @@ << 0,  1,  1>> :> 5
  @@ << 0,  1,  0>> :> 5
  @@ << 0,  1, -1>> :> 5
  @@ << 0,  0,  1>> :> 4
  @@ << 0,  0,  0>> :> 4
  @@ << 0,  0, -1>> :> 4
  @@ << 0, -1,  1>> :> 0
  @@ << 0, -1,  0>> :> 0
  @@ << 0, -1, -1>> :> 0
  @@ <<-1,  1,  1>> :> 5
  @@ <<-1,  1,  0>> :> 5
  @@ <<-1,  1, -1>> :> 6
  @@ <<-1,  0,  1>> :> 7
  @@ <<-1,  0,  0>> :> 7
  @@ <<-1,  0, -1>> :> 7
  @@ <<-1, -1,  1>> :> 8
  @@ <<-1, -1,  0>> :> 8
  @@ <<-1, -1, -1>> :> 8

(* the dict A: code of the signs of the change of the 3 hours, of the      *)
(* change of the change, and of the change of the last hour                *)
A ==
     << 1,  1,  1>> :> 3
  @@ << 1,  1,  0>> :> 3
  @@ << 1,  1, -1>> :> 3
  @@ << 1,  0,  1>> :> 2
  @@ << 1,  0,  0>> :> 2
  @@ << 1,  0, -1>> :> 2
  @@ << 1, -1,  1>> :> 1
  @@ << 1, -1,  0>> :> 1
  @@ << 1, -1, -1>> :> 0
  @@ << 0,  1,  1>> :> 5
  @@ << 0,  1,  0>> :> 5
  @@ << 0,  1, -1>> :> 5
  @@ << 0,  0,  1>> :> 4
  @@ << 0,  0,  0>> :> 4
  @@ << 0,  0, -1>> :> 4
  @@ << 0, -1,  1>> :> 0
  @@ << 0, -1,  0>> :> 0
  @@ << 0, -1, -1>> :> 0
  @@ <<-1,  1,  1>> :> 5
  @@ <<-1,  1,  0>> :> 6
  @@ <<-1,  1, -1>> :> 6
  @@ <<-1,  0,  1>> :> 7
  @@ <<-1,  0,  0>> :> 7
  @@ <<-1,  0, -1>> :> 7
  @@ <<-1, -1,  1>> :> 8
  @@ <<-1, -1,  0>> :> 8
  @@ <<-1, -1, -1>> :> 8

(* variant: nothing below zero counts as a rise, x>=0 *)
sign_ge(x) == IF x >= 0 THEN 1 ELSE IF x < 0 THEN 0 - 1 ELSE 0

sign(x) == IF x > 0 THEN 1 ELSE IF x < 0 THEN 0 - 1 ELSE 0

(* a reading that is a str, such as 'n/a', and the test for a number *)
NotANumber == <<"str", "n/a">>
IsNumber(o) == Len(o) = 1

(* variant: the changes of the first and the third hour are added *)
pressure_tendency_bufr_sum(p3, p2, p1, p0) ==
  IF ~(IsNumber(p3) /\ IsNumber(p2) /\ IsNumber(p1) /\ IsNumber(p0)) THEN None
  ELSE LET diff_all == Val(p0) - Val(p3)
           diff_third == Val(p0) - Val(p1)
           diff_first == Val(p2) - Val(p3)
       IN Some(A[<<sign(diff_all), sign(diff_third + diff_first), sign(diff_third)>>])

(* variant: the TypeError of a difference is not caught *)
pressure_tendency_bufr_uncaught(p3, p2, p1, p0) ==
  IF ~(IsNumber(p3) /\ IsNumber(p2) /\ IsNumber(p1) /\ IsNumber(p0))
  THEN Raise("TypeError")
  ELSE LET diff_all == Val(p0) - Val(p3)
           diff_third == Val(p0) - Val(p1)
           diff_first == Val(p2) - Val(p3)
       IN Some(A[<<sign(diff_all), sign(diff_third - diff_first), sign(diff_third)>>])

(* a difference with None or with a str raises TypeError, which is caught: *)
(* None                                                                    *)
pressure_tendency_bufr(p3, p2, p1, p0) ==
  IF ~(IsNumber(p3) /\ IsNumber(p2) /\ IsNumber(p1) /\ IsNumber(p0)) THEN None
  ELSE LET diff_all == Val(p0) - Val(p3)
           diff_third == Val(p0) - Val(p1)
           diff_first == Val(p2) - Val(p3)
       IN Some(A[<<sign(diff_all), sign(diff_third - diff_first), sign(diff_third)>>])

(***************************************************************************)
(* weathercodes.WMOSymbolBinder                                            *)
(***************************************************************************)
(* str(k) of an int *)
str_int(k) == IF k < 0 THEN <<"-">> \o Digits(0 - k) ELSE Digits(k)

(* l[i] of the Python list l, held as a function on 0..len(l)-1: an index  *)
(* below zero counts from the end of the list                              *)
list_getitem(l, i) ==
  LET len == Cardinality(DOMAIN l) IN
  IF i >= len \/ i < 0 - len THEN Raise("IndexError")
  ELSE Ok(l[IF i < 0 THEN i + len ELSE i])

(* WMOSymbolBinder(code, code_table).wmosymbol *)
WMOSymbolBinder(code, code_table) ==
  LET r == IF code_table \in DOMAIN WMO_TABLES
           THEN list_getitem(WMO_TABLES[code_table], code)
           ELSE Raise("KeyError")
  IN IF IsOk(r) THEN r[2]
     ELSE str_int(code_table) \o <<":">> \o str_int(code)

(***************************************************************************)
(* weathercodes.StationBinder.wind; the wind speed is None or Some(v), v   *)
(* in km/h, the direction None or Some(d), d in degrees.  The result is '' *)
(* (<<>>) or the group of the barb: its direction and its strokes in the   *)
(* order in which they are drawn, a stroke being <<kind, jj>> with jj the  *)
(* place on the shaft in 1/100 of its length                               *)
(***************************************************************************)
(* weewx.units.kph_to_knot, in 1/1000000 kn: 1 km/h is 0.539957 kn *)
kph_to_knot(x) == x * 539957

(* variant: the strokes behind a flag are counted from 10 on, (kn-10)//2 *)
wind_kn2_from_10(windspeed, winddir) ==
  IF IsNone(windspeed) THEN <<>>
  ELSE LET kn == round(kph_to_knot(Val(windspeed)), 5000000) IN
    IF kn = 0 THEN <<>>
    ELSE IF IsNone(winddir) THEN <<>>
    ELSE
      LET kn2 == IF kn >= 10 THEN (kn - 10) \div 2 ELSE (kn + 1) \div 2
          ii0 == IF kn >= 10 THEN 18 ELSE 0
          stroke(ii) ==
            <<IF ii = kn2 - 1 /\ kn % 2 # 0 THEN "half" ELSE "full",
              IF kn = 1 THEN 10 ELSE 10 * ii + ii0>>
      IN [dir |-> Val(winddir),
          strokes |-> (IF kn >= 10 THEN << <<"flag", 0>> >> ELSE <<>>)
                        \o << <<"shaft", 0>> >>
                        \o [k \in 1..(IF kn2 > 0 THEN kn2 ELSE 0) |-> stroke(k - 1)]]

wind(windspeed, winddir) ==
  IF IsNone(windspeed) THEN <<>>
  ELSE LET kn == round(kph_to_knot(Val(windspeed)), 5000000) IN
    IF kn = 0 THEN <<>>
    ELSE IF IsNone(winddir) THEN <<>>
    ELSE
      LET kn2 == IF kn >= 10 THEN (kn - 9) \div 2 ELSE (kn + 1) \div 2
          ii0 == IF kn >= 10 THEN 18 ELSE 0
          stroke(ii) ==
            <<IF ii = kn2 - 1 /\ kn % 2 # 0 THEN "half" ELSE "full",
              IF kn = 1 THEN 10 ELSE 10 * ii + ii0>>
      IN [dir |-> Val(winddir),
          strokes |-> (IF kn >= 10 THEN << <<"flag", 0>> >> ELSE <<>>)
                        \o << <<"shaft", 0>> >>
                        \o [k \in 1..(IF kn2 > 0 THEN kn2 ELSE 0) |-> stroke(k - 1)]]

(***************************************************************************)
(* weathercodes.StationBinder.station.  kwargs is the dict of the supplied *)
(* fields in its order, a sequence of <<name, value>>; a value is None,    *)
(* Some(k) for a plain number k (a temperature in 1/10 degree C, a         *)
(* barometer reading in 1/100 hPa, a visibility in m, a wind speed in      *)
(* km/h, a code) or <<"ValueTuple", v, group>>.  The result is the viewBox *)
(* <<x0, y0, b, h>> and the elements in the order in which they are        *)
(* appended, each one reduced to what it shows                             *)
(***************************************************************************)
(* the surrounding rectangles x0, y0, x1, y1 of FORMAT, in widths *)
FORMAT ==
  [WMO |-> [n |-> <<0, 0, 1, 1>>, ww |-> <<-1, 0, 0, 1>>,
            TTT |-> <<-1, -1, 0, 0>>, Td |-> <<-1, 1, 0, 2>>,
            Tw |-> <<-1, 2, 0, 3>>, PPPP |-> <<1, -1, 2, 0>>,
            ppp |-> <<0, 1, 2, 1>>, a |-> <<2, 0, 3, 1>>,
            VV |-> <<-2, 0, -1, 1>>, W1 |-> <<1, 1, 2, 2>>,
            W2 |-> <<1, 1, 2, 2>>, RRR |-> <<1, 2, 2, 3>>],
   DWD |-> [n |-> <<0, 0, 1, 1>>, ww |-> <<-1, 0, 0, 1>>,
            TTT |-> <<-1, -1, 0, 0>>, Td |-> <<-1, 1, 0, 2>>,
            Tw |-> <<-1, 1, 0, 2>>, PPPP |-> <<1, -1, 2, 0>>,
            ppp |-> <<1, -1, 2, 0>>, a |-> <<1, 0, 2, 1>>,
            VV |-> <<-1, 0, -1, 1>>, W1 |-> <<1, 1, 2, 2>>,
            W2 |-> <<1, 1, 2, 2>>, RRR |-> <<1, 1, 2, 2>>]]

(* '%.1f' % t and '%.0f' % t of a temperature of t/10 degrees *)
format_1f(t) ==
  (IF t < 0 THEN <<"-">> ELSE <<>>)
    \o Digits((IF t < 0 THEN 0 - t ELSE t) \div 10)
    \o <<".">> \o Digits((IF t < 0 THEN 0 - t ELSE t) % 10)
format_0f(t) ==
  (IF t < 0 THEN <<"-">> ELSE <<>>)
    \o Digits(round(IF t < 0 THEN 0 - t ELSE t, 10))

to_celsius(x, round_temp) ==
  IF IsNone(x) THEN <<>>
  ELSE IF round_temp THEN format_0f(Val(x)) ELSE format_1f(Val(x))

to_mbar(x) == x

(* of a value that is no ObservationBinder: <<p, pdiff>>, pdiff = '' *)
to_coded_mbar(x) ==
  LET p == to_mbar(x) IN
  IF IsNone(p) THEN << <<>>, <<>> >>
  ELSE LET p10 == round(Val(p), 10)
       IN << str_int(IF p10 >= 10000 THEN p10 - 10000 ELSE p10), <<>> >>

(* of a plain value a: the group station_a of the path of code to_int(a) *)
pressure_tendency_symbol(a) == <<"a", a>>

svg_text(title, text) == <<"text", title, text>>

min(x, y) == IF x < y THEN x ELSE y
max(x, y) == IF x > y THEN x ELSE y

(* x0 = min(x0, r[0]*width) ... y1 = max(y1, r[3]*width) *)
station_enlarge(box, r, width) ==
  <<min(box[1], r[1] * width), min(box[2], r[2] * width),
    max(box[3], r[3] * width), max(box[4], r[4] * width)>>

kwargs_has(kwargs, key) == \E i \in 1..Len(kwargs) : kwargs[i][1] = key
kwargs_get(kwargs, key) ==
  kwargs[CHOOSE i \in 1..Len(kwargs) : kwargs[i][1] = key][2]

(* the past weather symbol of a W1 or W2 value, lines 2079 to 2110 *)
station_W_symbol(val) ==
  LET v == IF Len(val) = 3 THEN val[2] ELSE val
      group == IF Len(val) = 3 THEN val[3] ELSE None
  IN
  IF IsNone(v) THEN Raise("TypeError")
  ELSE IF group = Some("group_wmo_ww") THEN
    IF 30 <= Val(v) /\ Val(v) < 36 THEN Ok(WAWA_SYMBOLS[27])
    ELSE IF 36 <= Val(v) /\ Val(v) < 40 THEN Ok(WW_SYMBOLS[38])
    ELSE IF Val(v) = 90 THEN Ok(W_SYMBOLS[8])
    ELSE IF Val(v) >= 40 THEN list_getitem(W_SYMBOLS, Val(v) \div 10)
    ELSE Ok(None)
  ELSE IF group = Some("group_wmo_wawa") THEN
    IF 27 <= Val(v) /\ Val(v) < 30 THEN Ok(WAWA_SYMBOLS[27])
    ELSE IF 30 <= Val(v) /\ Val(v) <= 35 THEN Ok(WAWA_SYMBOLS[33])
    ELSE IF 40 <= Val(v) /\ Val(v) < 50 THEN Ok(WAWA_SYMBOLS[40])
    ELSE IF Val(v) >= 50 THEN list_getitem(W_SYMBOLS, Val(v) \div 10)
    ELSE Ok(None)
  ELSE list_getitem(W_SYMBOLS, Val(v))

(* one round of the loop over the fields, lines 2025 to 2124; st holds     *)
(* obsfmt, the box x0, y0, x1, y1 and els                                  *)
station_obs(obs, val, format, width, round_temp, st) ==
  LET done(obsfmt, box, els) ==
        Ok([obsfmt |-> obsfmt, els |-> els,
            box |-> IF IsNone(obsfmt) THEN box
                    ELSE station_enlarge(box, Val(obsfmt), width)])
  IN
  IF obs \in {"outTemp", "TTT", "TT"} THEN
    done(Some(format.TTT), st.box,
         Append(st.els, svg_text("TTT", to_celsius(val, round_temp))))
  ELSE IF obs \in {"dewpoint", "TdTdTd", "Td"} THEN
    done(Some(format.Td), st.box,
         Append(st.els, svg_text("Td", to_celsius(val, round_temp))))
  ELSE IF obs \in {"barometer", "PPPP"} THEN
    LET p == to_coded_mbar(val)[1] IN
    IF Len(p) > 0
    THEN done(Some(format.PPPP), station_enlarge(st.box, format.PPPP, width),
              Append(st.els, svg_text("PPPP", p)))
    ELSE done(st.obsfmt, st.box, st.els)
  ELSE IF obs = "visibility" THEN
    LET vv == IF IsNone(val) THEN Raise("TypeError")
              ELSE visibility_code(Int_(Val(val)))
    IN IF IsOk(vv)
       THEN done(Some(format.VV), st.box, Append(st.els, svg_text("VV", vv[2])))
       ELSE vv
  ELSE IF obs \in {"W1", "W2", "W1W2"} THEN
    IF obs \notin DOMAIN format THEN Raise("KeyError")
    ELSE LET sym == station_W_symbol(val) IN
      IF ~IsOk(sym) THEN sym
      ELSE done(Some(format[obs]), st.box,
                IF IsNone(sym[2]) THEN st.els
                ELSE Append(st.els, <<"W", obs, sym[2]>>))
  ELSE done(None, st.box, st.els)

RECURSIVE station_loop(_, _, _, _, _, _)
station_loop(kwargs, i, format, width, round_temp, st) ==
  IF i > Len(kwargs) THEN Ok(st)
  ELSE LET r == station_obs(kwargs[i][1], kwargs[i][2], format, width,
                            round_temp, st)
       IN IF IsOk(r)
          THEN station_loop(kwargs, i + 1, format, width, round_temp, r[2])
          ELSE r

(* station(format, width) of StationBinder(ww, wawa, n=nn, **kwargs), with *)
(* color and round_temp left at None                                       *)
station(format_name, width_arg, nn, ww_arg, wawa, kwargs) ==
  LET width == IF IsNone(width_arg) \/ width_arg = Some(0) THEN 50
               ELSE Val(width_arg)
      round_temp == format_name = "DWD"
      format == IF format_name \in DOMAIN FORMAT THEN FORMAT[format_name]
                ELSE FORMAT["WMO"]
      \* cloud cover symbol (mandatory)
      okta == IF IsNone(nn) THEN Raise("TypeError")
              ELSE list_getitem(WMO_TABLES[2700], round(Val(nn) * 8, 100))
      st_n == IF IsOk(okta) THEN okta[2] ELSE WMO_TABLES[2700][10]
      box_n == station_enlarge(<<0, 0, 0, 0>>, format.n, width)
      els_n == << <<"n", st_n>> >>
      \* present weather symbol
      sym == IF ~IsNone(ww_arg) THEN list_getitem(WMO_TABLES[4677], Val(ww_arg))
             ELSE IF ~IsNone(wawa) THEN list_getitem(WMO_TABLES[4680], Val(wawa))
             ELSE Ok(None)
      has_ww == IsOk(sym) /\ ~IsNone(sym[2])
      box_ww == IF has_ww THEN station_enlarge(box_n, format.ww, width) ELSE box_n
      els_ww == IF has_ww THEN Append(els_n, <<"ww", sym[2]>>) ELSE els_n
      \* wind
      x == IF kwargs_has(kwargs, "windDir") /\ kwargs_has(kwargs, "windSpeed")
           THEN wind(kwargs_get(kwargs, "windSpeed"), kwargs_get(kwargs, "windDir"))
           ELSE <<>>
      box_wind == IF x # <<>>
                  THEN <<min(box_ww[1], -15), min(box_ww[2], -15),
                         max(box_ww[3], width + 15), max(box_ww[4], width + 15)>>
                  ELSE box_ww
      els_wind == IF x # <<>> THEN Append(els_ww, <<"wind", x>>) ELSE els_ww
      \* barometer
      has_a == kwargs_has(kwargs, "a") /\ ~IsNone(kwargs_get(kwargs, "a"))
      obsfmt_a == IF kwargs_has(kwargs, "a") THEN Some(format.a) ELSE Some(format.n)
      box_a == IF has_a THEN station_enlarge(box_wind, format.a, width) ELSE box_wind
      els_a == IF has_a
               THEN Append(els_wind, pressure_tendency_symbol(Val(kwargs_get(kwargs, "a"))))
               ELSE els_wind
      \* text
      r == station_loop(kwargs, 1, format, width, round_temp,
                        [obsfmt |-> obsfmt_a, box |-> box_a, els |-> els_a])
  IN IF IsOk(r)
     THEN Ok([viewBox |-> <<r[2].box[1], r[2].box[2],
                            r[2].box[3] - r[2].box[1], r[2].box[4] - r[2].box[2]>>,
              els |-> r[2].els])
     ELSE r

(***************************************************************************)
(* weatherservices.DWDOPENMETEOthread: the table WEATHER of the Open-Meteo *)
(* weather codes, german text, english text, '', '', Belchertown icon, DWD *)
(* icon, Aeris icon, and get_ww                                            *)
(***************************************************************************)
WEATHER ==
  (-1 :> <<<<"unbekannte Wetterbedingungen">>, <<"unknown conditions">>, <<>>, <<>>, <<"unknown", ".png">>, <<"unknown", ".png">>, <<"na">>>>) @@
  (0 :> <<<<"wolkenlos">>, <<"clear sky">>, <<>>, <<>>, <<"clear-day", ".png">>, <<"0-8", ".png">>, <<"clear">>>>) @@
  (1 :> <<<<"heiter">>, <<"mainly clear">>, <<>>, <<>>, <<"mostly-clear-day", ".png">>, <<"2-8", ".png">>, <<"fair">>>>) @@
  (2 :> <<<<"bewölkt">>, <<"partly cloudy">>, <<>>, <<>>, <<"mostly-cloudy-day", ".png">>, <<"5-8", ".png">>, <<"pcloudy">>>>) @@
  (3 :> <<<<"bedeckt">>, <<"overcast">>, <<>>, <<>>, <<"cloudy", ".png">>, <<"8-8", ".png">>, <<"cloudy">>>>) @@
  (45 :> <<<<"Nebel">>, <<"fog">>, <<>>, <<>>, <<"fog", ".png">>, <<"40", ".png">>, <<"fog">>>>) @@
  (48 :> <<<<"gefrierender Nebel">>, <<"depositing rime fog">>, <<>>, <<>>, <<"fog", ".png">>, <<"48", ".png">>, <<>>>>) @@
  (51 :> <<<<"leichter Nieselregen">>, <<"light drizzle">>, <<>>, <<>>, <<"rain", ".png">>, <<"7", ".png">>, <<"drizzle">>>>) @@
  (53 :> <<<<"Nieselregen">>, <<"moderate drizzle">>, <<>>, <<>>, <<"rain", ".png">>, <<"8", ".png">>, <<"drizzle">>>>) @@
  (55 :> <<<<"starker Nieselregen">>, <<"dense drizzle">>, <<>>, <<>>, <<"rain", ".png">>, <<"9", ".png">>, <<"drizzle">>>>) @@
  (56 :> <<<<"gefrierender Nieselregen">>, <<"light freezing drizzle">>, <<>>, <<>>, <<"sleet", ".png">>, <<"66", ".png">>, <<"freezingrain">>>>) @@
  (57 :> <<<<"kräftiger gefrierender Nieselregen">>, <<"dense freezing drizzle">>, <<>>, <<>>, <<"sleet", ".png">>, <<"67", ".png">>, <<"freezingrain">>>>) @@
  (61 :> <<<<"leichter Regen">>, <<"slight rain">>, <<>>, <<>>, <<"rain", ".png">>, <<"7", ".png">>, <<"rain">>>>) @@
  (63 :> <<<<"Regen">>, <<"moderate rain">>, <<>>, <<>>, <<"rain", ".png">>, <<"8", ".png">>, <<"rain">>>>) @@
  (65 :> <<<<"starker Regen">>, <<"heavy rain">>, <<>>, <<>>, <<"rain", ".png">>, <<"9", ".png">>, <<"rain">>>>) @@
  (66 :> <<<<"gefrierender Regen">>, <<"light freezing rain">>, <<>>, <<>>, <<"sleet", ".png">>, <<"66", ".png">>, <<"freezingrain">>>>) @@
  (67 :> <<<<"starker gefrierender Regen">>, <<"heavy freezing rain">>, <<>>, <<>>, <<"sleet", ".png">>, <<"67", ".png">>, <<"freezingrain">>>>) @@
  (71 :> <<<<"leichter Schneefall">>, <<"slight snow fall">>, <<>>, <<>>, <<"snow", ".png">>, <<"14", ".png">>, <<"snow">>>>) @@
  (73 :> <<<<"Schneefall">>, <<"moderate snow fall">>, <<>>, <<>>, <<"snow", ".png">>, <<"15", ".png">>, <<"snow">>>>) @@
  (75 :> <<<<"starker Schneefall">>, <<"heavy snow fall">>, <<>>, <<>>, <<"snow", ".png">>, <<"16", ".png">>, <<"snow">>>>) @@
  (77 :> <<<<"Eiskörner">>, <<"snow grains">>, <<>>, <<>>, <<"snow", ".png">>, <<"17", ".png">>, <<"sleet">>>>) @@
  (80 :> <<<<"leichter Regenschauer">>, <<"slight rain showers">>, <<>>, <<>>, <<"rain", ".png">>, <<"80", ".png">>, <<"showers">>>>) @@
  (81 :> <<<<"Regenschauer">>, <<"moderate rain showers">>, <<>>, <<>>, <<"rain", ".png">>, <<"80", ".png">>, <<"showers">>>>) @@
  (82 :> <<<<"starker Regenschauer">>, <<"heavy rain showers">>, <<>>, <<>>, <<"rain", ".png">>, <<"82", ".png">>, <<"showers">>>>) @@
  (85 :> <<<<"Schneeregen">>, <<"slight snow showers">>, <<>>, <<>>, <<"sleet", ".png">>, <<"12", ".png">>, <<"rainandsnow">>>>) @@
  (86 :> <<<<"starker Schneeregen">>, <<"heavy snow showers">>, <<>>, <<>>, <<"sleet", ".png">>, <<"13", ".png">>, <<"rainandsnow">>>>) @@
  (95 :> <<<<"Gewitter">>, <<"thunderstorm">>, <<>>, <<>>, <<"thunderstorm", ".png">>, <<"27", ".png">>, <<"tstorm">>>>) @@
  (96 :> <<<<"Gewitter mit Hagel">>, <<"thunderstorm with slight hail">>, <<>>, <<>>, <<"thunderstorm", ".png">>, <<"29", ".png">>, <<"tstorm">>>>) @@
  (99 :> <<<<"starkes Gewitter mit Hagel">>, <<"thunderstorm with slight hail">>, <<>>, <<>>, <<"thunderstrom", ".png">>, <<"30", ".png">>, <<"tstorm">>>>)

(* the tuple (0,1,2,4) of get_ww, indexed from 0 *)
get_ww_idx == [k \in 0..3 |-> <<0, 1, 2, 4>>[k + 1]]

(* get_ww(wwcode, night) of DWDOPENMETEOthread, wwcode an integer, night   *)
(* (night_arg) 0 or 1                                                      *)
DWDOPENMETEOthread_get_ww(wwcode, night_arg) ==
  LET x == IF wwcode \in DOMAIN WEATHER THEN WEATHER[wwcode] ELSE WEATHER[-1]
  IN IF wwcode < 4 THEN
       LET idx == list_getitem(get_ww_idx, wwcode) IN
       IF ~IsOk(idx) THEN idx
       ELSE LET icons == N_ICON_LIST_ws[idx[2] + 1]
                aeris == icons[5] \o (IF night_arg = 1 THEN <<"n">> ELSE <<>>) \o <<".png">>
            IN Ok(<<x[1], x[2], <<>>, <<>>, icons[night_arg + 1], icons[3], aeris>>)
     ELSE Ok(x)

(***************************************************************************)
(* The provider threads and the service of weatherservices.py and dwd.py.  *)
(* A reading is a ValueTuple <<value, unit, group>>, the value None or     *)
(* Some(v) for a number or a text in tokens, unit and group None or a      *)
(* one-token text; a temperature is in 1/10 degree.  A record of readings  *)
(* (a dict) is a function from its keys.  The buffer self.data of a thread *)
(* is PyNone, PyList(records) or PyDict(record)                            *)
(***************************************************************************)
ValueTuple(v, unit, group) == <<v, unit, group>>

PyNone == <<"None", <<>> >>
PyList(l) == <<"list", l>>
PyDict(d) == <<"dict", d>>
PyTruthy(x) == x[1] # "None" /\ DOMAIN x[2] # {}

(* s[i] of a Python list s held as a sequence *)
seq_getitem(s, i) ==
  IF i >= Len(s) \/ i < 0 - Len(s) THEN Raise("IndexError")
  ELSE Ok(s[(IF i < 0 THEN i + Len(s) ELSE i) + 1])

(* d.update(e) *)
dict_update(d, e) == e @@ d

(* key[0].upper()+key[1:] for the keys of the readings *)
upper_first ==
  [dateTime |-> "DateTime", interval |-> "Interval", date |-> "Date",
   time |-> "Time", outTemp |-> "OutTemp", presentWeather |-> "PresentWeather",
   icon |-> "Icon", icontitle |-> "Icontitle", station_id |-> "Station_id",
   windDir |-> "WindDir", windDir10 |-> "WindDir10", weathercode |-> "Weathercode",
   latitude |-> "Latitude", longitude |-> "Longitude", altitude |-> "Altitude"]

(* the unit of a unit group in the unit systems US (1) and METRIC (16) of  *)
(* weewx.units                                                             *)
StdUnits ==
  [group_time |-> (1 :> <<"unix_epoch">>) @@ (16 :> <<"unix_epoch">>),
   group_interval |-> (1 :> <<"minute">>) @@ (16 :> <<"minute">>),
   group_temperature |-> (1 :> <<"degree_F">>) @@ (16 :> <<"degree_C">>),
   group_direction |-> (1 :> <<"degree_compass">>) @@ (16 :> <<"degree_compass">>),
   group_coordinate |-> (1 :> <<"degree_compass">>) @@ (16 :> <<"degree_compass">>),
   group_altitude |-> (1 :> <<"foot">>) @@ (16 :> <<"meter">>),
   group_count |-> (1 :> <<"count">>) @@ (16 :> <<"count">>)]

(* weewx.units.convertStd(val_t, usUnits): the reading in the unit of its  *)
(* group in the unit system usUnits; a reading without unit and group is   *)
(* returned as it is, a group that is unknown raises KeyError              *)
convertStd(val_t, usUnits) ==
  IF IsNone(val_t[2]) /\ IsNone(val_t[3]) THEN Ok(val_t)
  ELSE IF IsNone(val_t[3]) \/ Val(val_t[3]) \notin DOMAIN StdUnits THEN Raise("KeyError")
  ELSE LET target == StdUnits[Val(val_t[3])][usUnits] IN
    IF val_t[2] = target THEN Ok(val_t)
    ELSE IF val_t[2] = <<"degree_C">> /\ target = <<"degree_F">>
      THEN Ok(ValueTuple(IF IsNone(val_t[1]) THEN None
                         ELSE Some((Val(val_t[1]) * 9) \div 5 + 320),
                         target, val_t[3]))
    ELSE IF val_t[2] = <<"meter">> /\ target = <<"foot">>
      THEN Ok(ValueTuple(IF IsNone(val_t[1]) THEN None
                         ELSE Some((Val(val_t[1]) * 10000) \div 3048),
                         target, val_t[3]))
    ELSE Raise("KeyError")

(* the readings older than this many seconds are no recent readings *)
StaleAfter == 10800

(* DWDPOIthread.WEATHER, indexed from 0, and get_ww; N_ICON_LIST is the    *)
(* list of the module of the thread                                        *)
POI_WEATHER_src ==
  <<
    <<<<"unbekannt">>, <<"unknown", ".png">>, <<"unknown", ".png">>>>,
    <<<<"wolkenlos">>, <<"clear-day", ".png">>, <<"0-8", ".png">>>>,
    <<<<"heiter">>, <<"mostly-clear-day", ".png">>, <<"2-8", ".png">>>>,
    <<<<"bewölkt">>, <<"mostly-cloudy-day", ".png">>, <<"5-8", ".png">>>>,
    <<<<"bedeckt">>, <<"cloudy", ".png">>, <<"8-8", ".png">>>>,
    <<<<"Nebel">>, <<"fog", ".png">>, <<"40", ".png">>>>,
    <<<<"gefrierender Nebel">>, <<"fog", ".png">>, <<"48", ".png">>>>,
    <<<<"leichter Regen">>, <<"rain", ".png">>, <<"7", ".png">>>>,
    <<<<"Regen">>, <<"rain", ".png">>, <<"8", ".png">>>>,
    <<<<"kräftiger Regen">>, <<"rain", ".png">>, <<"9", ".png">>>>,
    <<<<"gefrierender Regen">>, <<"sleet", ".png">>, <<"66", ".png">>>>,
    <<<<"kräftiger gefrierender Regen">>, <<"sleet", ".png">>, <<"67", ".png">>>>,
    <<<<"Schneeregen">>, <<"sleet", ".png">>, <<"12", ".png">>>>,
    <<<<"kräftiger Schneeregen">>, <<"sleet", ".png">>, <<"13", ".png">>>>,
    <<<<"leichter Schneefall">>, <<"snow", ".png">>, <<"14", ".png">>>>,
    <<<<"Schneefall">>, <<"snow", ".png">>, <<"15", ".png">>>>,
    <<<<"kräftiger Schneefall">>, <<"snow", ".png">>, <<"16", ".png">>>>,
    <<<<"Eiskörner">>, <<"snow", ".png">>, <<"17", ".png">>>>,
    <<<<"Regenschauer">>, <<"rain", ".png">>, <<"80", ".png">>>>,
    <<<<"kräftiger Regenschauer">>, <<"rain", ".png">>, <<"82", ".png">>>>,
    <<<<"Schneeregenschauer">>, <<"sleet", ".png">>, <<"83", ".png">>>>,
    <<<<"kräftiger Schneeregenschauer">>, <<"sleet", ".png">>, <<"84", ".png">>>>,
    <<<<"Schneeschauer">>, <<"snow", ".png">>, <<"85", ".png">>>>,
    <<<<"kräftiger Schneeschauer">>, <<"snow", ".png">>, <<"86", ".png">>>>,
    <<<<"Graupelschauer">>, <<"snow", ".png">>, <<"87", ".png">>>>,
    <<<<"kräftiger Graupelschauer">>, <<"snow", ".png">>, <<"88", ".png">>>>,
    <<<<"Gewitter ohne Niederschlag">>, <<"thunderstorm", ".png">>, <<"26", ".png">>>>,
    <<<<"Gewitter">>, <<"thunderstorm", ".png">>, <<"27", ".png">>>>,
    <<<<"kräftiges Gewitter">>, <<"thunderstorm", ".png">>, <<"28", ".png">>>>,
    <<<<"Gewitter mit Hagel">>, <<"thunderstorm", ".png">>, <<"29", ".png">>>>,
    <<<<"kräftiges Gewitter mit Hagel">>, <<"thunderstrom", ".png">>, <<"30", ".png">>>>,
    <<<<"Böen">>, <<"wind", ".png">>, <<"18", ".png">>>>
  >>
POI_WEATHER == [k \in 0..(Len(POI_WEATHER_src) - 1) |-> POI_WEATHER_src[k + 1]]
POI_get_ww_idx == [k \in 0..4 |-> <<0, 0, 1, 3, 4>>[k + 1]]

DWDPOIthread_get_ww(N_ICON_LIST, present_weather, night_arg) ==
  LET r == IF IsNone(present_weather) THEN Raise("TypeError")
           ELSE list_getitem(POI_WEATHER, Val(present_weather))
      x == IF IsOk(r) THEN r[2]
           ELSE << <<"Wetterzustand nicht gemeldet">>, <<"unknown", ".png">>, <<>>, <<>> >>
  IN IF ~IsNone(present_weather) /\ Val(present_weather) # 0 /\ Val(present_weather) < 5
     THEN LET idx == list_getitem(POI_get_ww_idx, Val(present_weather)) IN
       IF ~IsOk(idx) THEN idx
       ELSE LET icons == N_ICON_LIST[idx[2] + 1]
                aeris == icons[5] \o (IF night_arg = 1 THEN <<"n">> ELSE <<>>) \o <<".png">>
            IN Ok(<<None, x[1], <<>>, 26, icons[night_arg + 1], icons[3], aeris>>)
     ELSE Ok(<<None, x[1], <<>>, 0, x[2], x[3], <<>> >>)

(* the record y of one data line of the CSV reply of DWDPOIthread.getRecord; *)
(* the line is given by its time t, its temperature and its present        *)
(* weather code, None for a value that is no number                        *)
DWDPOIthread_line(N_ICON_LIST, iconset, ln) ==
  LET y == [dateTime |-> ValueTuple(Some(ln.t), <<"unix_epoch">>, <<"group_time">>),
            interval |-> ValueTuple(Some(60), <<"minute">>, <<"group_interval">>),
            date |-> ValueTuple(<<"dd.mm.yy">>, None, None),
            time |-> ValueTuple(<<"HH:MM">>, None, None),
            outTemp |-> ValueTuple(ln.outTemp, <<"degree_C">>, <<"group_temperature">>),
            presentWeather |-> ValueTuple(ln.presentWeather, <<"CODE_TABLE">>, None)]
      wwcode == DWDPOIthread_get_ww(N_ICON_LIST, y.presentWeather[1], 0)
  IN IF ~IsOk(wwcode) THEN wwcode
     ELSE Ok(dict_update(y, [icon |-> ValueTuple(wwcode[2][iconset + 1], None, None),
                             icontitle |-> ValueTuple(wwcode[2][2], None, None)]))

(* DWDPOIthread.getRecord: the new self.data and how the call ended; reply *)
(* is <<"fail", why>> when wget or decode raise, <<"csv", lines>> else     *)
DWDPOIthread_getRecord(N_ICON_LIST, iconset, self_data, reply) ==
  IF reply[1] = "fail" THEN [data |-> self_data, ended |-> "failed"]
  ELSE LET x == [i \in 1..Len(reply[2]) |->
                   DWDPOIthread_line(N_ICON_LIST, iconset, reply[2][i])]
       IN IF \E i \in 1..Len(x) : ~IsOk(x[i])
          THEN [data |-> self_data, ended |-> "raised"]
          ELSE [data |-> PyList([i \in 1..Len(x) |-> x[i][2]]), ended |-> "stored"]

(* tuple - int, as in last_ts - self.last_get_ts of get_data of dwd.py *)
tuple_minus_int(t, k) == Raise("TypeError")

(* DWDPOIthread.get_data of dwd.py: data, interval and the new last_get_ts *)
dwd_get_data(self_data, self_last_get_ts) ==
  LET last == seq_getitem(self_data[2], -1)
      interval == IF IsOk(last) THEN tuple_minus_int(last[2].time, self_last_get_ts)
                  ELSE last
  IN [data |-> self_data,
      interval |-> IF IsOk(interval) THEN Some(interval[2]) ELSE None,
      last_get_ts |-> self_last_get_ts]

(* get_data of the threads of weatherservices.py: data,interval and for    *)
(* DWDCDCthread data,interval,maxtime                                      *)
get_data(datasource, self_data, self_maxtime) ==
  IF datasource = "CDC" THEN <<self_data, 10, self_maxtime>>
  ELSE <<self_data, 1>>

(* DWDCDCthread.decodecsv of a table given by its rows of time and value;  *)
(* obs is the observation type of the value column                         *)
decodecsv(obs, rows) ==
  [i \in 1..Len(rows) |->
     LET y == [station_id |-> ValueTuple(<<"station">>, None, None),
               dateTime |-> ValueTuple(Some(rows[i].t), <<"unix_epoch">>, <<"group_time">>)]
     IN IF obs = "outTemp"
        THEN dict_update(y, [outTemp |-> ValueTuple(rows[i].v, <<"degree_C">>, <<"group_temperature">>)])
        ELSE dict_update(y, [windDir |-> ValueTuple(rows[i].v, <<"degree_compass">>, <<"group_direction">>),
                             windDir10 |-> ValueTuple(rows[i].v, <<"degree_compass">>, <<"group_direction">>)])]

(* the rows of another table, lines 882 to 896: st holds x, ti (from the   *)
(* time to the index from 0), tabti and errti (times)                      *)
RECURSIVE DWDCDCthread_other(_, _, _)
DWDCDCthread_other(tab, i, st) ==
  IF i > Len(tab) THEN st
  ELSE LET ii == tab[i]
           t == Val(ii.dateTime[1])
       IN DWDCDCthread_other(tab, i + 1,
            IF t \in DOMAIN st.ti
            THEN [st EXCEPT !.x[st.ti[t] + 1] = dict_update(@, ii),
                            !.tabti = Append(@, t)]
            ELSE IF t > Val(st.x[Len(st.x)].dateTime[1])
            THEN [st EXCEPT !.ti = (t :> Len(st.x)) @@ @,
                            !.x = Append(@, ii),
                            !.tabti = Append(@, t)]
            ELSE [st EXCEPT !.errti = Append(@, t)])

(* one round of the loop over the urls, lines 868 to 920; st holds x (None *)
(* or Some(list)), ti (None or Some(dict)) and maxtime (None or Some(time)) *)
DWDCDCthread_url(obs, reply, st) ==
  IF reply[1] = "fail" THEN st
  ELSE LET tab == decodecsv(obs, reply[2]) IN
    IF ~IsNone(st.x) /\ Len(Val(st.x)) > 0
    THEN LET o == DWDCDCthread_other(tab, 1,
                    [x |-> Val(st.x), ti |-> Val(st.ti), tabti |-> <<>>, errti |-> <<>>])
             mt == Val(st.maxtime)
         IN [x |-> Some(o.x), ti |-> Some(o.ti),
             maxtime |-> IF Len(o.tabti) > 0
                            /\ (o.tabti[Len(o.tabti)] < mt \/ o.tabti[1] > mt)
                         THEN Some(o.tabti[Len(o.tabti)]) ELSE st.maxtime]
    ELSE [x |-> Some(tab),
          ti |-> Some([t \in {Val(tab[i].dateTime[1]) : i \in 1..Len(tab)} |->
                         (CHOOSE i \in 1..Len(tab) :
                            /\ Val(tab[i].dateTime[1]) = t
                            /\ \A j \in (i + 1)..Len(tab) : Val(tab[j].dateTime[1]) # t) - 1]),
          maxtime |-> IF Len(tab) > 0 THEN Some(Val(tab[Len(tab)].dateTime[1]))
                      ELSE st.maxtime]

(* DWDCDCthread.getRecord with the urls of 'air' and 'wind': the new       *)
(* self.data and self.maxtime; geo is None or Some(<<lat, lon, alt>>)      *)
DWDCDCthread_getRecord(geo, replies) ==
  LET st1 == DWDCDCthread_url("outTemp", replies[1],
                              [x |-> None, ti |-> None, maxtime |-> None])
      st == DWDCDCthread_url("windDir", replies[2], st1)
      add == [interval |-> ValueTuple(Some(10), <<"minute">>, <<"group_interval">>)]
               @@ (IF IsNone(geo) THEN <<>>
                   ELSE [latitude |-> ValueTuple(Some(Val(geo)[1]), <<"degree_compass">>, <<"group_coordinate">>),
                         longitude |-> ValueTuple(Some(Val(geo)[2]), <<"degree_compass">>, <<"group_coordinate">>)]
                        @@ (IF Val(geo)[3] # 0
                            THEN [altitude |-> ValueTuple(Some(Val(geo)[3]), <<"meter">>, <<"group_altitude">>)]
                            ELSE <<>>))
  IN [data |-> IF IsNone(st.x) THEN PyNone
               ELSE PyList([i \in 1..Len(Val(st.x)) |-> dict_update(Val(st.x)[i], add)]),
      maxtime |-> IF ~IsNone(st.ti) /\ DOMAIN Val(st.ti) # {} /\ ~IsNone(st.maxtime)
                  THEN Some(Val(st.ti)[Val(st.maxtime)]) ELSE None,
      ended |-> IF replies[1][1] = "fail" /\ replies[2][1] = "fail"
                THEN "failed" ELSE "stored"]

(* ZAMGthread.getRecord: the reply is <<"fail", why>> or <<"json", r>>, r  *)
(* the time of the last timestamp and the last value of TL, None for a     *)
(* value that float() refuses                                              *)
ZAMGthread_getRecord(geo, self_data, reply) ==
  IF reply[1] = "fail" THEN [data |-> self_data, ended |-> "failed"]
  ELSE LET x == [dateTime |-> ValueTuple(Some(reply[2].t), <<"unix_epoch">>, <<"group_time">>)]
                  @@ (IF IsNone(reply[2].outTemp) THEN <<>>
                      ELSE [outTemp |-> ValueTuple(reply[2].outTemp, <<"degree_C">>, <<"group_temperature">>)])
           add == [interval |-> ValueTuple(Some(10), <<"minute">>, <<"group_interval">>)]
                    @@ (IF IsNone(geo) THEN <<>>
                        ELSE [latitude |-> ValueTuple(Some(Val(geo)[1]), <<"degree_compass">>, <<"group_coordinate">>),
                              longitude |-> ValueTuple(Some(Val(geo)[2]), <<"degree_compass">>, <<"group_coordinate">>)]
                             @@ (IF Val(geo)[3] # 0
                                 THEN [altitude |-> ValueTuple(Some(Val(geo)[3]), <<"meter">>, <<"group_altitude">>)]
                                 ELSE <<>>))
       IN [data |-> PyDict(dict_update(x, add)), ended |-> "stored"]

(* DWDOPENMETEOthread.getRecord: the reply is <<"fail", why>> or           *)
(* <<"json", r>>, r the time, the temperature and the weather code of      *)
(* current_weather (None: not received) and the place of the grid cell     *)
DWDOPENMETEOthread_getRecord(iconset, self_data, reply) ==
  IF reply[1] = "fail" THEN [data |-> self_data, ended |-> "failed"]
  ELSE LET r == reply[2]
           y == [dateTime |-> ValueTuple(Some(r.t), <<"unix_epoch">>, <<"group_time">>),
                 interval |-> ValueTuple(Some(60), <<"minute">>, <<"group_interval">>),
                 outTemp |-> ValueTuple(r.outTemp, <<"degree_C">>, <<"group_temperature">>)]
                  @@ (IF IsNone(r.weathercode) THEN <<>>
                      ELSE [weathercode |-> ValueTuple(r.weathercode, <<"count">>, <<"group_count">>)])
           wwcode == DWDOPENMETEOthread_get_ww(
                       IF "weathercode" \in DOMAIN y THEN Val(y.weathercode[1]) ELSE -1, 0)
       IN IF ~IsOk(wwcode) THEN [data |-> self_data, ended |-> "raised"]
          ELSE [data |-> PyList(<<
                  dict_update(y,
                    [icon |-> ValueTuple(wwcode[2][iconset + 1], None, None),
                     icontitle |-> ValueTuple(wwcode[2][1], None, None),
                     latitude |-> ValueTuple(Some(r.geo[1]), <<"degree_compass">>, <<"group_coordinate">>),
                     longitude |-> ValueTuple(Some(r.geo[2]), <<"degree_compass">>, <<"group_coordinate">>),
                     altitude |-> ValueTuple(Some(r.geo[3]), <<"meter">>, <<"group_altitude">>)]) >>),
                ended |-> "stored"]

(* DWDservice._to_weewx; the keys of the archive record are texts in       *)
(* tokens, <<prefix, Key>> or <<key>>; in dwd.py the prefix is always put  *)
(* in front, and dateTime is never left out                                *)
_to_weewx_key(module, prefix, key) ==
  IF module = "dwd" \/ prefix # "" THEN <<prefix, upper_first[key]>> ELSE <<key>>
_to_weewx_val(reply, key, usUnits) ==
  LET val == convertStd(reply[key], usUnits)
  IN IF IsOk(val) THEN val[2][1] ELSE reply[key][1]
_to_weewx(module, prefix, reply, usUnits) ==
  LET keys == {key \in DOMAIN reply :
                 ~(key \in {"interval", "count", "sysStatus"}
                   \/ (module # "dwd" /\ key = "dateTime" /\ prefix = ""))}
  IN [k \in {_to_weewx_key(module, prefix, key) : key \in keys} |->
        _to_weewx_val(reply,
                      CHOOSE key \in keys : _to_weewx_key(module, prefix, key) = k,
                      usUnits)]

(* the keys that keep their value when there are no recent readings *)
KeptKeys == {"interval", "latitude", "longitude", "altitude"}

(* variant: readings of exactly StaleAfter seconds of age are not recent *)
no_recent_readings_le(data_dict, ts) ==
  LET x == IF "dateTime" \in DOMAIN data_dict THEN data_dict.dateTime[1] ELSE Some(ts)
  IN IsNone(x) \/ Val(x) <= ts - StaleAfter

(* x is None or x<(ts-10800), line 1979 *)
no_recent_readings(data_dict, ts) ==
  LET x == IF "dateTime" \in DOMAIN data_dict THEN data_dict.dateTime[1] ELSE Some(ts)
  IN IsNone(x) \/ Val(x) < ts - StaleAfter

(* DWDservice.new_archive_record of weatherservices.py for the one thread  *)
(* of the service: the record of the event after the update, what get_data *)
(* returned, and self.data of the thread, whose record is changed in place *)
new_archive_record(datasource, prefix, self_data, self_maxtime, record_in) ==
  LET ts == Val(record_in[<<"dateTime">>])
      ret == get_data(datasource, self_data, self_maxtime)
      at == IF datasource = "CDC"
            THEN (IF IsNone(self_maxtime) THEN Raise("TypeError")
                  ELSE seq_getitem(ret[1][2], Val(self_maxtime)))
            ELSE Ok(<<>>)
      sel == IF datasource \in {"POI", "OPENMETEO"}
               THEN (IF PyTruthy(ret[1]) THEN PyDict(ret[1][2][1]) ELSE ret[1])
             ELSE IF datasource = "CDC"
               THEN (IF PyTruthy(ret[1])
                     THEN (IF IsOk(at) THEN PyDict(at[2]) ELSE PyNone)
                     ELSE ret[1])
             ELSE ret[1]
  IN IF ~PyTruthy(sel)
     THEN [record |-> record_in, got |-> ret, data |-> self_data]
     ELSE LET stale == no_recent_readings(sel[2], ts)
              d2 == IF stale
                    THEN [key \in DOMAIN sel[2] |->
                            IF key \in KeptKeys THEN sel[2][key]
                            ELSE ValueTuple(None, sel[2][key][2], sel[2][key][3])]
                    ELSE sel[2]
              x == _to_weewx("weatherservices", prefix, d2, Val(record_in[<<"usUnits">>]))
          IN [record |-> dict_update(record_in, x),
              got |-> ret,
              data |-> IF datasource \in {"POI", "OPENMETEO"}
                         THEN PyList([self_data[2] EXCEPT ![1] = d2])
                       ELSE IF datasource = "CDC"
                         THEN PyList([self_data[2] EXCEPT ![Val(self_maxtime) + 1] = d2])
                       ELSE PyDict(d2)]

(* DWDservice.new_archive_record of dwd.py *)
dwd_new_archive_record(prefix, self_data, self_last_get_ts, record_in) ==
  LET g == dwd_get_data(self_data, self_last_get_ts)
  IN [record |-> IF PyTruthy(g.data)
                 THEN dict_update(record_in,
                        _to_weewx("dwd", prefix, g.data[2][1], Val(record_in[<<"usUnits">>])))
                 ELSE record_in,
      got |-> <<g.data, g.interval>>,
      last_get_ts |-> g.last_get_ts]

(***************************************************************************)
(* Inputs                                                                  *)
(***************************************************************************)
Codes == 0..99
BadCodes == ((0 - MaxBad)..(0 - 1)) \cup (100..(99 + MaxBad))

RECURSIVE SetsUpTo(_, _)
SetsUpTo(U, k) ==
  IF k = 0 THEN {{}}
  ELSE LET P == SetsUpTo(U, k - 1) IN P \cup {s \cup {c} : s \in P, c \in U}

CandidateSets == SetsUpTo(Codes \cup BadCodes, MaxCand)
SingleSets == SetsUpTo(Codes \cup BadCodes, 1)

(* the edges of the cloud cover bands and of the DWD icon, in 1/1000 % *)
Edges == {0, 7000, 12500, 32000, 50000, 70000, 87500, 95000, 100000, 106250, 118750}
GridMilli == {e + d : e \in Edges, d \in (0 - MaxStep)..MaxStep} \cap (0..200000)
CloudValues ==
  {None} \cup {Some(Float_(m)) : m \in GridMilli} \cup {Some(Int_(e \div 1000)) : e \in Edges}
(* the binder truncates the cloud cover to an int *)
BinderCloud ==
  {None, Some(Float_(50000)), Some(Float_(12500))} \cup {Some(Int_(e \div 1000)) : e \in Edges}

(* inputs <<candidates, cloud cover, night>>: all candidate sets without   *)
(* cloud data and with 50.0 % by night, and every single code with every   *)
(* cloud cover value by day and by night                                   *)
GetWWInputs ==
  (CandidateSets \X {<<None, FALSE>>, <<Some(Float_(50000)), TRUE>>})
    \cup (SingleSets \X (CloudValues \X BOOLEAN))
BinderInputs == SingleSets \X (BinderCloud \X BOOLEAN)
(* visibilities in metres: every full hundred up to 5600 m, the edges of   *)
(* the steps of WMO table 4377 and the values within MaxStep/1000 m of     *)
(* them, and a distance below zero                                         *)
VisEdges == {0, 50, 150, 250, 4950, 5000, 5050, 5300, 5450, 5500, 5550, 5600,
             6000, 10000, 30000, 30500, 32500, 35000, 50000, 70000, 72500,
             100000}
VisibilityValues ==
  {Int_(100 * h) : h \in 0..56} \cup {Int_(e) : e \in VisEdges}
    \cup {Float_(m) : m \in {e * 1000 + d : e \in VisEdges, d \in (0 - MaxStep)..MaxStep} \cap (0..200000000)}
    \cup {Int_(0 - 100)}

(* pressures in 1/100 hPa: 1000.00, 1000.04 and 1000.06 (the same and the *)
(* next tenth), 1000.25 (half way between two tenths), 1001.00            *)
Pressures == {100000, 100004, 100006, 100025, 100100}
(* the pressures of the lists with a missing sample *)
PressuresOrNone == {None, Some(100000), Some(100100)}
(* the samples of a list span 3 hours, the first 3 hours ago, the last now *)
Samples(ps) ==
  [i \in 1..Len(ps) |->
     <<IF Len(ps) = 1 THEN 0 ELSE ((i - 1) * 10800) \div (Len(ps) - 1), ps[i]>>]
SeqsUpTo(S, k) == UNION {[1..len -> S] : len \in 0..k}
PressureLists ==
  {Samples(ps) : ps \in SeqsUpTo({Some(p) : p \in Pressures}, MaxSamples)
                       \cup SeqsUpTo(PressuresOrNone, MaxSamples)}

(* barometer readings in 1/100 hPa: the full hPa from 1000 to              *)
(* 1000+MaxHpa, 1000.5 and 1001.5, 1000.2, a missing reading and a str      *)
BufrPressures ==
  {None, NotANumber} \cup {Some(100000 + 100 * k) : k \in 0..MaxHpa}
         \cup {Some(100050), Some(100150), Some(100020)}

(* the code tables, and a number that is no table *)
CodeTables == {2700, 4561, 4531, 4677, 4680, 1234}
(* the codes of a table, and MaxBad and more codes on either side *)
TableCodes(t) ==
  LET len == IF t \in DOMAIN WMO_TABLES THEN Cardinality(DOMAIN WMO_TABLES[t]) ELSE 0
  IN ((0 - len) - MaxBad)..(len + MaxBad)

(* wind speeds in km/h, every full km/h up to MaxKph, and no speed; a wind *)
(* from the east, and no direction                                        *)
WindSpeeds == {None} \cup {Some(v) : v \in 0..MaxKph}
WindDirs == {None, Some(90)}

(* the fields of a station model: names and values, taken in every order  *)
(* of up to MaxFields fields of different names                            *)
FieldPool ==
  {<<"a", None>>, <<"a", Some(3)>>,
   <<"barometer", None>>, <<"barometer", Some(101320)>>,
   <<"TTT", None>>, <<"TTT", Some(15)>>, <<"Td", Some(-5)>>,
   <<"visibility", None>>, <<"visibility", Some(5000)>>,
   <<"W1", Some(0)>>, <<"W1", Some(5)>>, <<"W1", Some(10)>>, <<"W1", Some(-1)>>,
   <<"W1", <<"ValueTuple", Some(35), Some("group_wmo_ww")>> >>,
   <<"W1", <<"ValueTuple", Some(45), Some("group_wmo_wawa")>> >>,
   <<"W2", Some(7)>>, <<"W1W2", Some(5)>>,
   <<"windSpeed", Some(0)>>, <<"windSpeed", Some(20)>>,
   <<"windDir", None>>, <<"windDir", Some(90)>>,
   <<"RRR", Some(1)>>}
FieldLists ==
  {k \in SeqsUpTo(FieldPool, MaxFields) :
     \A i, j \in 1..Len(k) : i # j => k[i][1] # k[j][1]}
(* <<nn, ww, wawa, kwargs>>: the symbols alone, and the fields with a half *)
(* covered sky                                                             *)
StationInputs ==
  ({None, Some(50), Some(-25), Some(200)} \X {None, Some(5), Some(100), Some(-1)}
     \X {None, Some(6), Some(10)} \X {<<>>})
    \cup ({Some(50)} \X {None, Some(5)} \X {None} \X FieldLists)
StationFormats == {"WMO", "DWD", "XYZ"}
StationWidths == {None, Some(40)}

(* Open-Meteo weather codes, the defined ones and others around them *)
OpenMeteoCodes == (0 - 6)..100

(* the service: the thread it runs, with or without prefix and data of   *)
(* the place of the station                                                *)
ThreadConfigs ==
  [datasource : {"dwdPOI", "POI", "OPENMETEO"}, prefix : {"", "id"},
   geo : {None}, iconset : {4}]
    \cup [datasource : {"CDC", "ZAMG"}, prefix : {"", "id"},
          geo : {None, Some(<<49, 8, 1524>>)}, iconset : {4}]
(* self.data after __init__ *)
InitialData(datasource) == IF datasource = "ZAMG" THEN PyDict(<<>>) ELSE PyList(<<>>)
(* the times of the readings, and the times of the archive records: the   *)
(* earlier readings are StaleAfter seconds old at one and a second older   *)
(* at the other                                                            *)
RecordTimes == {100000, 100600}
ArchiveTimes == {100000 + StaleAfter, 100000 + StaleAfter + 1}
UnitSystems == {1, 16}
(* why a download fails *)
Fails == {<<"fail", why>> : why \in {"no reply", "undecodable", "missing sections"}}
PoiLines ==
  {[t |-> 100000, outTemp |-> Some(200), presentWeather |-> Some(4)],
   [t |-> 100600, outTemp |-> Some(215), presentWeather |-> Some(8)],
   [t |-> 100600, outTemp |-> None, presentWeather |-> None]}
PoiReplies == Fails \cup {<<"csv", lines>> : lines \in SeqsUpTo(PoiLines, MaxRows)}
CdcAirRows == {[t |-> 100000, v |-> Some(200)], [t |-> 100600, v |-> Some(215)]}
CdcWindRows == {[t |-> 100000, v |-> Some(90)], [t |-> 100600, v |-> None],
                [t |-> 99400, v |-> Some(45)]}
(* the tables of a file are in the order of time *)
CdcTables(rows) ==
  {tab \in SeqsUpTo(rows, MaxRows) :
     \A i, j \in 1..Len(tab) : i < j => tab[i].t < tab[j].t}
CdcReplies ==
  (Fails \cup {<<"csv", tab>> : tab \in CdcTables(CdcAirRows)})
    \X (Fails \cup {<<"csv", tab>> : tab \in CdcTables(CdcWindRows)})
ZamgReplies ==
  Fails \cup {<<"json", r>> : r \in [t : RecordTimes, outTemp : {None, Some(200)}]}
OpenMeteoReplies ==
  Fails \cup {<<"json", r>> :
                r \in [t : RecordTimes, outTemp : {Some(200)},
                       weathercode : {None, Some(3), Some(45)},
                       geo : {<<49, 8, 1524>>}]}

Attrs == {"ww", "text", "mosmix_priority", "belchertown_icon", "dwd_icon",
          "aeris_icon", "wi_icon", "svg_icon_filename", "unknown_attr"}
Langs(at) == IF at = "text" THEN {"de", "en"} ELSE {"en"}

(***************************************************************************)
(* The state machine: the module is loaded, then its functions are called  *)
(* one after the other                                                     *)
(***************************************************************************)
Init ==
  /\ WW_LIST = WW_LIST_order
  /\ printed = FALSE
  /\ op = "idle" /\ ww = {} /\ n = None /\ night = FALSE
  /\ lang = "en" /\ attr = "" /\ out = <<>>
  /\ args = <<>> /\ p_list = <<>> /\ first = <<>>
  /\ thread = [datasource |-> "", prefix |-> "", geo |-> None, iconset |-> 4]
  /\ data = <<"None", <<>> >>
  /\ maxtime = None /\ last_get_ts = 0
  /\ record = <<>> /\ got = <<>> /\ step = <<"no service">>

Call_get_ww ==
  /\ op = "idle"
  /\ \E in \in GetWWInputs :
       /\ ww' = in[1] /\ n' = in[2][1] /\ night' = in[2][2]
       /\ out' = get_ww(in[1], in[2][1], in[2][2])
  /\ op' = "get_ww"
  /\ UNCHANGED <<WW_LIST, printed, lang, attr>>
  /\ UNCHANGED caller_vars
  /\ UNCHANGED service_vars

Call_get_cloudcover ==
  /\ op = "idle"
  /\ \E x \in CloudValues : n' = x /\ out' = get_cloudcover(x)
  /\ op' = "get_cloudcover"
  /\ UNCHANGED <<WW_LIST, printed, ww, night, lang, attr>>
  /\ UNCHANGED caller_vars
  /\ UNCHANGED service_vars

Call_get_cloudcover_ws ==
  /\ op = "idle"
  /\ \E x \in CloudValues : n' = x /\ out' = get_cloudcover_ws(x)
  /\ op' = "get_cloudcover_ws"
  /\ UNCHANGED <<WW_LIST, printed, ww, night, lang, attr>>
  /\ UNCHANGED caller_vars
  /\ UNCHANGED service_vars

Call_get_cloudcover_dwd ==
  /\ op = "idle"
  /\ \E x \in CloudValues : n' = x /\ out' = get_cloudcover_dwd(x)
  /\ op' = "get_cloudcover_dwd"
  /\ UNCHANGED <<WW_LIST, printed, ww, night, lang, attr>>
  /\ UNCHANGED caller_vars
  /\ UNCHANGED service_vars

Call_presentweather ==
  /\ op = "idle"
  /\ \E in \in BinderInputs, at \in Attrs :
       \E lg \in Langs(at) :
         /\ ww' = in[1] /\ n' = in[2][1] /\ night' = in[2][2]
         /\ lang' = lg /\ attr' = at
         /\ out' = __getattr__(in[1], in[2][1], in[2][2], lg, at)
  /\ op' = "presentweather"
  /\ UNCHANGED <<WW_LIST, printed>>
  /\ UNCHANGED caller_vars
  /\ UNCHANGED service_vars

Call_print_ww_list ==
  /\ op = "idle"
  /\ out' = print_ww_list.result
  /\ WW_LIST' = print_ww_list.WW_LIST
  /\ printed' = TRUE
  /\ op' = "print_ww_list"
  /\ UNCHANGED <<ww, n, night, lang, attr>>
  /\ UNCHANGED caller_vars
  /\ UNCHANGED service_vars

Call_print_ww_tab ==
  /\ op = "idle"
  /\ out' = print_ww_tab
  /\ op' = "print_ww_tab"
  /\ UNCHANGED <<WW_LIST, printed, ww, n, night, lang, attr>>
  /\ UNCHANGED caller_vars
  /\ UNCHANGED service_vars

Call_visibility_code ==
  /\ op = "idle"
  /\ \E visibility \in VisibilityValues :
       /\ args' = <<visibility>>
       /\ out' = visibility_code(visibility)
  /\ op' = "visibility_code"
  /\ UNCHANGED <<WW_LIST, printed, ww, n, night, lang, attr, p_list, first>>
  /\ UNCHANGED service_vars

(* the caller builds a list and calls pressure_tendency with it *)
Call_pressure_tendency ==
  /\ op = "idle"
  /\ \E l \in PressureLists :
       /\ args' = <<l>>
       /\ out' = pressure_tendency(l).result
       /\ p_list' \in pressure_tendency(l).p_list
  /\ first' = <<>>
  /\ op' = "pressure_tendency"
  /\ UNCHANGED <<WW_LIST, printed, ww, n, night, lang, attr>>
  /\ UNCHANGED service_vars

(* the caller calls pressure_tendency a second time with the same list *)
Call_pressure_tendency_again ==
  /\ op = "pressure_tendency" /\ first = <<>>
  /\ first' = <<out>>
  /\ out' = pressure_tendency(p_list).result
  /\ p_list' \in pressure_tendency(p_list).p_list
  /\ UNCHANGED <<WW_LIST, printed, op, ww, n, night, lang, attr, args>>
  /\ UNCHANGED service_vars

Call_pressure_tendency_bufr ==
  /\ op = "idle"
  /\ \E p3 \in BufrPressures, p2 \in BufrPressures,
        p1 \in BufrPressures, p0 \in BufrPressures :
       /\ args' = <<p3, p2, p1, p0>>
       /\ out' = pressure_tendency_bufr(p3, p2, p1, p0)
  /\ op' = "pressure_tendency_bufr"
  /\ UNCHANGED <<WW_LIST, printed, ww, n, night, lang, attr, p_list, first>>
  /\ UNCHANGED service_vars

Call_WMOSymbolBinder ==
  /\ op = "idle"
  /\ \E code_table \in CodeTables :
       \E code \in TableCodes(code_table) :
         /\ args' = <<code, code_table>>
         /\ out' = WMOSymbolBinder(code, code_table)
  /\ op' = "WMOSymbolBinder"
  /\ UNCHANGED <<WW_LIST, printed, ww, n, night, lang, attr, p_list, first>>
  /\ UNCHANGED service_vars

Call_wind ==
  /\ op = "idle"
  /\ \E windspeed \in WindSpeeds, winddir \in WindDirs :
       /\ args' = <<windspeed, winddir>>
       /\ out' = wind(windspeed, winddir)
  /\ op' = "wind"
  /\ UNCHANGED <<WW_LIST, printed, ww, n, night, lang, attr, p_list, first>>
  /\ UNCHANGED service_vars

Call_station ==
  /\ op = "idle"
  /\ \E format \in StationFormats, width \in StationWidths, i \in StationInputs :
       /\ args' = <<format, width, i[1], i[2], i[3], i[4]>>
       /\ out' = station(format, width, i[1], i[2], i[3], i[4])
  /\ op' = "station"
  /\ UNCHANGED <<WW_LIST, printed, ww, n, night, lang, attr, p_list, first>>
  /\ UNCHANGED service_vars

Call_DWDOPENMETEOthread_get_ww ==
  /\ op = "idle"
  /\ \E wwcode \in OpenMeteoCodes, night_arg \in {0, 1} :
       /\ args' = <<wwcode, night_arg>>
       /\ out' = DWDOPENMETEOthread_get_ww(wwcode, night_arg)
  /\ op' = "DWDOPENMETEOthread.get_ww"
  /\ UNCHANGED <<WW_LIST, printed, ww, n, night, lang, attr, p_list, first>>
  /\ UNCHANGED service_vars

(* the call returns to the caller, which drops arguments and result *)
Return ==
  /\ op # "idle"
  /\ op' = "idle" /\ ww' = {} /\ n' = None /\ night' = FALSE
  /\ lang' = "en" /\ attr' = "" /\ out' = <<>>
  /\ args' = <<>> /\ p_list' = <<>> /\ first' = <<>>
  /\ UNCHANGED <<WW_LIST, printed>>
  /\ UNCHANGED service_vars
Next ==
  \/ Call_get_ww
  \/ Call_get_cloudcover
  \/ Call_get_cloudcover_ws
  \/ Call_get_cloudcover_dwd
  \/ Call_presentweather
  \/ Call_print_ww_list
  \/ Call_print_ww_tab
  \/ Call_visibility_code
  \/ Call_pressure_tendency
  \/ Call_pressure_tendency_again
  \/ Call_pressure_tendency_bufr
  \/ Call_WMOSymbolBinder
  \/ Call_wind
  \/ Call_station
  \/ Call_DWDOPENMETEOthread_get_ww
  \/ Return

Spec == Init /\ [][Next]_vars

(***************************************************************************)
(* The service at work: one provider thread, which fetches every now and   *)
(* then, and the engine, which hands archive records to the service        *)
(***************************************************************************)
InitService ==
  /\ WW_LIST = WW_LIST_order
  /\ printed = FALSE
  /\ op = "idle" /\ ww = {} /\ n = None /\ night = FALSE
  /\ lang = "en" /\ attr = "" /\ out = <<>>
  /\ args = <<>> /\ p_list = <<>> /\ first = <<>>
  /\ thread \in ThreadConfigs
  /\ data = InitialData(thread.datasource)
  /\ maxtime = None /\ last_get_ts = 0
  /\ record = <<>> /\ got = <<>> /\ step = <<"start">>

dwd_DWDPOIthread_getRecord ==
  /\ thread.datasource = "dwdPOI"
  /\ step[1] # "new_archive_record"
  /\ \E reply \in PoiReplies :
       LET r == DWDPOIthread_getRecord(N_ICON_LIST_dwd, thread.iconset, data, reply)
       IN data' = r.data /\ step' = <<"getRecord", r.ended>>
  /\ UNCHANGED <<calls_vars, thread, maxtime, last_get_ts, record, got>>

DWDPOIthread_getRecord_ ==
  /\ thread.datasource = "POI"
  /\ step[1] # "new_archive_record"
  /\ \E reply \in PoiReplies :
       LET r == DWDPOIthread_getRecord(N_ICON_LIST_ws, thread.iconset, data, reply)
       IN data' = r.data /\ step' = <<"getRecord", r.ended>>
  /\ UNCHANGED <<calls_vars, thread, maxtime, last_get_ts, record, got>>

DWDCDCthread_getRecord_ ==
  /\ thread.datasource = "CDC"
  /\ step[1] # "new_archive_record"
  /\ \E replies \in CdcReplies :
       LET r == DWDCDCthread_getRecord(thread.geo, replies)
       IN data' = r.data /\ maxtime' = r.maxtime /\ step' = <<"getRecord", r.ended>>
  /\ UNCHANGED <<calls_vars, thread, last_get_ts, record, got>>

ZAMGthread_getRecord_ ==
  /\ thread.datasource = "ZAMG"
  /\ step[1] # "new_archive_record"
  /\ \E reply \in ZamgReplies :
       LET r == ZAMGthread_getRecord(thread.geo, data, reply)
       IN data' = r.data /\ step' = <<"getRecord", r.ended>>
  /\ UNCHANGED <<calls_vars, thread, maxtime, last_get_ts, record, got>>

DWDOPENMETEOthread_getRecord_ ==
  /\ thread.datasource = "OPENMETEO"
  /\ step[1] # "new_archive_record"
  /\ \E reply \in OpenMeteoReplies :
       LET r == DWDOPENMETEOthread_getRecord(thread.iconset, data, reply)
       IN data' = r.data /\ step' = <<"getRecord", r.ended>>
  /\ UNCHANGED <<calls_vars, thread, maxtime, last_get_ts, record, got>>

(* the archive record of the event, before the service updates it *)
EventRecord(ts, usUnits) ==
  (<<"dateTime">> :> Some(ts)) @@ (<<"usUnits">> :> Some(usUnits))

DWDservice_new_archive_record ==
  /\ thread.datasource \in {"POI", "CDC", "ZAMG", "OPENMETEO"}
  /\ step[1] # "new_archive_record"
  /\ \E ts \in ArchiveTimes, usUnits \in UnitSystems :
       LET r == new_archive_record(thread.datasource, thread.prefix, data, maxtime,
                                   EventRecord(ts, usUnits))
       IN /\ record' = r.record /\ got' = r.got /\ data' = r.data
          /\ step' = <<"new_archive_record", ts, usUnits>>
  /\ UNCHANGED <<calls_vars, thread, maxtime, last_get_ts>>

dwd_DWDservice_new_archive_record ==
  /\ thread.datasource = "dwdPOI"
  /\ step[1] # "new_archive_record"
  /\ \E ts \in ArchiveTimes, usUnits \in UnitSystems :
       LET r == dwd_new_archive_record(thread.prefix, data, last_get_ts,
                                       EventRecord(ts, usUnits))
       IN /\ record' = r.record /\ got' = r.got /\ last_get_ts' = r.last_get_ts
          /\ step' = <<"new_archive_record", ts, usUnits>>
  /\ UNCHANGED <<calls_vars, thread, data, maxtime>>

(* the handler has returned and the engine is done with the event: the   *)
(* record of the event and what the handler held are gone                  *)
Event_done ==
  /\ step[1] = "new_archive_record"
  /\ record' = <<>> /\ got' = <<>> /\ step' = <<"event done">>
  /\ UNCHANGED <<calls_vars, thread, data, maxtime, last_get_ts>>

NextService ==
  \/ dwd_DWDPOIthread_getRecord
  \/ DWDPOIthread_getRecord_
  \/ DWDCDCthread_getRecord_
  \/ ZAMGthread_getRecord_
  \/ DWDOPENMETEOthread_getRecord_
  \/ DWDservice_new_archive_record
  \/ dwd_DWDservice_new_archive_record
  \/ Event_done

SpecService == InitService /\ [][NextService]_vars

(***************************************************************************)
(* Properties                                                              *)
(***************************************************************************)
(* position of the ww code c in the priority list as written in the source *)
RankOf ==
  [c \in 0..99 |-> CHOOSE i \in 1..Len(WW_LIST_src) : WW_LIST_src[i][1] = c]

(* the entry of WW_LIST_src that ranks first among the codes of cand *)
FirstRanked(cand) ==
  WW_LIST_src[CHOOSE i \in {RankOf[c] : c \in cand \cap (0..99)} :
                \A c \in cand \cap (0..99) : i <= RankOf[c]]

(* C1: get_ww resolves to the first entry of WW_LIST, in list order, whose *)
(* code is a candidate: with a candidate in 0..99 the resolved code is a   *)
(* candidate and code and severity are those of that entry; candidates     *)
(* outside 0..99 never match and never change the outcome; {95} without    *)
(* cloud data gives code 95, severity 1 and the English text of a slight   *)
(* or moderate thunderstorm                                                *)
C1_FirstMatchInListOrder ==
  op = "get_ww" =>
    /\ (ww \cap Codes # {} =>
          /\ out[1] \in ww
          /\ out[1] = FirstRanked(ww)[1]
          /\ out[4] = FirstRanked(ww)[4])
    /\ out = get_ww(ww \cap Codes, n, night)
    /\ (ww = {95} /\ IsNone(n) =>
          /\ out[1] = 95 /\ out[4] = Some(1)
          /\ out[3] = <<"slight or moderate thunderstorm with rain or snow">>)

C1_Witness ==
  /\ op = "get_ww" /\ 95 \in ww /\ 100 \in ww /\ IsNone(n)
  /\ out[1] = 95 /\ out[4] = Some(1)

(* C2: a candidate 19 always wins; a candidate 99 wins unless 19 is a      *)
(* candidate; a code of 0..3 is resolved only if no candidate lies in      *)
(* 4..99, and among 0..3 the order is 3, 2, 1, 0                           *)
C2_PriorityExtremes ==
  op = "get_ww" =>
    /\ (19 \in ww => out[1] = 19)
    /\ (99 \in ww /\ 19 \notin ww => out[1] = 99)
    /\ (out[1] \in 0..3 => ww \cap (4..99) = {})
    /\ (ww \cap (4..99) = {} /\ ww \cap (0..3) # {} =>
          /\ out[1] \in ww \cap (0..3)
          /\ \A c \in ww \cap (0..3) : c <= out[1])

C2_Witness ==
  /\ op = "get_ww" /\ 19 \in ww /\ 99 \in ww /\ out[1] = 19

(* C3 as stated: code 17 outranks code 79, with both as candidates the     *)
(* resolved code is never 79 and {79,17} resolves to 17                    *)
C3_Original_17_Outranks_79 ==
  op = "get_ww" /\ 17 \in ww /\ 79 \in ww =>
    /\ out[1] # 79
    /\ (ww = {17, 79} => out[1] = 17)

(* C3 amended: code 79 (ice pellets) outranks code 17 (thunderstorm        *)
(* without precipitation): with both as candidates the resolved code is    *)
(* never 17 and {79,17} resolves to 79                                     *)
C3_79_Outranks_17 ==
  op = "get_ww" /\ 17 \in ww /\ 79 \in ww =>
    /\ out[1] # 17
    /\ (ww = {17, 79} => out[1] = 79)

C3_Witness ==
  /\ op = "get_ww" /\ ww = {17, 79} /\ IsNone(n) /\ out[1] = 79

(* the cloud-cover-governed class of codes *)
CloudClass == (0..3) \cup {14, 15, 16} \cup (20..29)

(* the matched entry with its symbol, as get_ww returns it unchanged *)
Matched(cand) == Append(FirstRanked(cand), WW_SYMBOLS[FirstRanked(cand)[1]])

(* C4: the cloud cover override applies exactly to the class {0,1,2,3},    *)
(* {14,15,16}, 20..29: outside the class the outcome does not depend on    *)
(* cloud_pct and night; inside the class and with a cloud_pct the icons    *)
(* and texts are replaced, code and severity stay those of the matched     *)
(* entry; without cloud_pct the matched entry is returned unchanged        *)
C4_OverrideClass ==
  op = "get_ww" /\ ww \cap Codes # {} =>
    LET base == Matched(ww) IN
      /\ out[1] = base[1] /\ out[4] = base[4]
      /\ (base[1] \notin CloudClass => out = base)
      /\ (IsNone(n) => out = base)
      /\ (base[1] \in CloudClass /\ ~IsNone(n) =>
            /\ out[2] # base[2] /\ out[3] # base[3]
            /\ \A k \in 5..9 : ~IsNone(out[k]) /\ out[k] # base[k])

C4_Witness ==
  /\ op = "get_ww" /\ ww = {24} /\ n = Some(Float_(50000)) /\ night
  /\ out[1] = 24 /\ out[6] = Some(<<"5-8", ".png">>)

(* t ends with a blank, the percentage x rounded to an integer and '%' *)
EndsWithPercent(t, x) ==
  \E k \in 0..201 :
    /\ k * 1000 - x.m \in (0 - 500)..500
    /\ Len(t) >= Len(Digits(k)) + 2
    /\ SubSeq(t, Len(t) - Len(Digits(k)) - 1, Len(t)) = <<" ">> \o Digits(k) \o <<"%">>

(* C5: when the cloud cover override fires the text in the requested       *)
(* language, German or English, ends with the cloud percentage followed    *)
(* by a percent sign, e.g. '50%' for the candidates {0} and 50.0 %         *)
C5_TextEndsWithPercent ==
  /\ (op = "get_ww" /\ out[1] \in ww \cap CloudClass /\ ~IsNone(n) =>
        (Val(n).m <= 100000 =>
           EndsWithPercent(out[2], Val(n)) /\ EndsWithPercent(out[3], Val(n))))
  /\ (op = "presentweather" /\ attr = "text" /\ ~IsNone(n) =>
        (Val(n).m <= 100000 /\ get_ww(ww, to_int(n), night)[1] \in ww \cap CloudClass =>
           IsOk(out) /\ EndsWithPercent(out[2], Val(to_int(n)))))

(* index 1..5 of the band of m/1000 % with the edges 7, 32, 70, 95 *)
BandOf(m) == 1 + Cardinality({e \in {7000, 32000, 70000, 95000} : e <= m})

(* index 1..5 of the entry of N_ICON_LIST that supplies the DWD icon *)
DwdBandOf(m) ==
  IF m < 12500 THEN 1 ELSE IF m < 50000 THEN 2 ELSE IF m < 87500 THEN 3 ELSE 5

OverrideFires ==
  op = "get_ww" /\ out[1] \in CloudClass /\ ~IsNone(n) /\ Val(n).m <= 100000

(* C6 as stated: when the override fires for p in [0,100], the Belchertown *)
(* icon, the DWD icon, the Aeris icon and the weather-icons class are all  *)
(* those of the one band get_cloudcover(p) with the edges 7/32/70/95       *)
C6_Original_AllIconsOfOneBand ==
  OverrideFires /\ out[1] \in ww =>
    LET b == N_ICON_LIST_src[BandOf(Val(n).m)] IN
      /\ out[5] = Some(b[IF night THEN 2 ELSE 1])
      /\ out[6] = Some(b[3])
      /\ out[7] = Some(b[5])
      /\ out[9] = Some(b[IF night THEN 7 ELSE 6])

(* C6 amended: the Belchertown icon, the Aeris icon and the weather-icons  *)
(* class are those of the band get_cloudcover(p) with the edges            *)
(* 7/32/70/95; the DWD icon is chosen with its own edges 12.5/50/87.5      *)
(* (0-8 below 12.5, 2-8 below 50, 5-8 below 87.5, else 8-8); p = 50 gives  *)
(* the partly cloudy band in every vocabulary                              *)
C6_IconsOfBandAndDwdByOctas ==
  OverrideFires =>
    LET b == N_ICON_LIST_src[BandOf(Val(n).m)] IN
      /\ out[5] = Some(b[IF night THEN 2 ELSE 1])
      /\ out[6] = Some(N_ICON_LIST_src[DwdBandOf(Val(n).m)][3])
      /\ out[7] = Some(b[5])
      /\ out[9] = Some(b[IF night THEN 7 ELSE 6])
      /\ (Val(n).m = 50000 =>
            /\ out[5] \in {Some(<<"partly-cloudy-day", ".png">>),
                           Some(<<"partly-cloudy-night", ".png">>)}
            /\ out[6] = Some(N_ICON_LIST_src[3][3])
            /\ out[7] = Some(<<"pcloudy">>))

C6_Witness ==
  /\ OverrideFires /\ n = Some(Float_(7000)) /\ ~night
  /\ out[5] = Some(<<"mostly-clear-day", ".png">>)
  /\ out[6] = Some(<<"0-8", ".png">>)

(* the 'no data' sentinel: code 0, severity 30, empty texts, neutral icons *)
NoDataOutcome ==
  <<0, <<>>, <<>>, Some(30), Some(<<"unknown", ".png">>), Some(<<"unknown", ".png">>),
    Some(<<"na", ".png">>), Some(<<>>), Some(<<"wi_na">>), WW_SYMBOLS[0]>>

(* C7 as stated: without a candidate of the priority list get_ww returns   *)
(* the 'no data' sentinel for every cloud_pct and night                    *)
C7_Original_SentinelForEveryCloud ==
  op = "get_ww" /\ ww \cap Codes = {} => out = NoDataOutcome

(* C7 amended: without a candidate of the priority list get_ww returns     *)
(* code 0 and severity 30, which is below every severity of WW_LIST, for   *)
(* every cloud_pct and night; without cloud_pct the texts are empty and    *)
(* the icons are the neutral 'unknown'/'na' ones; with a cloud_pct the     *)
(* cloud cover override applies as to code 0: the texts hold only the      *)
(* appended cloud cover and the icons are those of the cloud cover         *)
C7_SentinelUnlessCloud ==
  op = "get_ww" /\ ww \cap Codes = {} =>
    /\ out[1] = 0 /\ out[4] = Some(30)
    /\ \A i \in 1..Len(WW_LIST_src) :
         ~IsNone(WW_LIST_src[i][4]) => Val(WW_LIST_src[i][4]) < 30
    /\ (IsNone(n) => out = NoDataOutcome)
    /\ (~IsNone(n) =>
          /\ out[2] = <<" ">> \o format_n_str(Val(n))
          /\ out[3] = <<" ">> \o str(Val(n))
          /\ \A k \in 5..9 : out[k] = get_ww({0}, n, night)[k])

C7_Witness ==
  /\ op = "get_ww" /\ ww = {100} /\ n = Some(Float_(50000)) /\ night
  /\ out[1] = 0 /\ out[4] = Some(30)
  /\ out[5] = Some(<<"partly-cloudy-night", ".png">>)

(* C8: get_ww has no hidden state: after any sequence of calls the list    *)
(* WW_LIST is in the order of the source, and the outcome of get_ww is the *)
(* one that the same call returns right after the module was loaded        *)
C8_NoHiddenState ==
  /\ WW_LIST = WW_LIST_order
  /\ (op = "get_ww" =>
        out = get_ww_in(WW_LIST_order, N_ICON_LIST_src, ww, n, night))
  /\ (op = "presentweather" /\ attr = "ww" =>
        out = Ok(get_ww_in(WW_LIST_order, N_ICON_LIST_src, ww, to_int(n), night)[1]))

C8_Witness ==
  /\ printed /\ op = "get_ww" /\ ww = {17, 79} /\ out[1] = 79

(* C9: the alternate symbol family is a fixed exception list: 96 gives     *)
(* thunderstorm-hail.svg, 13 and 17 lightning.svg, 56, 57, 66 and 67       *)
(* freezingrain.svg, 18 the -wind.svg variant of the cloud band icon, and  *)
(* every other resolved code its Belchertown icon with .png replaced by    *)
(* .svg                                                                    *)
C9_SvgIconFamily ==
  op = "presentweather" /\ attr = "svg_icon_filename" =>
    LET wwcode == get_ww(ww, to_int(n), night)
        code == wwcode[1]
    IN CASE code = 96 -> out = Ok(<<"thunderstorm-hail", ".svg">>)
         [] code \in {13, 17} -> out = Ok(<<"lightning", ".svg">>)
         [] code \in {56, 57, 66, 67} -> out = Ok(<<"freezingrain", ".svg">>)
         [] code = 18 ->
              \E b \in 1..5 :
                out = Ok(<<N_ICON_LIST_src[b][IF night THEN 2 ELSE 1][1], "-wind.svg">>)
         [] OTHER ->
              /\ IsOk(out) /\ ~IsNone(wwcode[5])
              /\ out[2] = <<Val(wwcode[5])[1], ".svg">>

(* the band of each boundary value, in 1/1000 %, counted from 0 *)
BandInstances ==
  {<<6999, 0>>, <<7000, 1>>, <<31999, 1>>, <<32000, 2>>, <<69999, 2>>,
   <<70000, 3>>, <<94999, 3>>, <<95000, 4>>, <<100000, 4>>}

(* C10: get_cloudcover maps every pct of [0,100] to exactly one of the     *)
(* five bands [0,7), [7,32), [32,70), [70,95), [95,100], the lower edge    *)
(* belonging to the band, and the copies of get_cloudcover in              *)
(* weathercodes, weatherservices and dwd select the same band index        *)
C10_FiveBands ==
  (/\ op \in {"get_cloudcover", "get_cloudcover_ws", "get_cloudcover_dwd"}
   /\ ~IsNone(n) /\ Val(n).m <= 100000) =>
    LET list == IF op = "get_cloudcover" THEN N_ICON_LIST_src
                ELSE IF op = "get_cloudcover_ws" THEN N_ICON_LIST_ws
                ELSE N_ICON_LIST_dwd
        icon == IF op = "get_cloudcover" THEN Val(out) ELSE out[2]
        bands == {b \in 1..5 : list[b] = icon}
    IN /\ (op # "get_cloudcover" => IsOk(out))
       /\ bands = {BandOf(Val(n).m)}
       /\ \A p \in BandInstances : Val(n).m = p[1] => bands = {p[2] + 1}
       /\ get_cloudcover(n) = Some(N_ICON_LIST_src[BandOf(Val(n).m)])
       /\ get_cloudcover_ws(n) = Ok(N_ICON_LIST_ws[BandOf(Val(n).m)])
       /\ get_cloudcover_dwd(n) = Ok(N_ICON_LIST_dwd[BandOf(Val(n).m)])

C10_Witness ==
  /\ op = "get_cloudcover_dwd" /\ n = Some(Float_(95000))
  /\ out = Ok(N_ICON_LIST_dwd[5])

(* the Belchertown icons of the two pseudo-bands above 100 % *)
IsFogBand(icon) == icon[1] = <<"fog", ".png">> /\ icon[5] = <<"fog">>
IsUnknownBand(icon) == icon[1] = <<"unknown", ".png">> /\ icon[5] = <<"na">>

(* C11 as stated: get_cloudcover returns the 'sky obscured/fog' band for   *)
(* every pct of the closed interval [106.25,118.75] and the 'not observed' *)
(* band exactly for pct > 118.75                                           *)
C11_Original_FogClosedInterval ==
  (op = "get_cloudcover" /\ ~IsNone(n)) =>
    LET v == Val(n).m IN
      /\ ((106250 <= v /\ v <= 118750) => IsFogBand(Val(out)))
      /\ (IsUnknownBand(Val(out)) <=> v > 118750)

(* C11 amended: get_cloudcover returns the 'sky obscured/fog' band exactly *)
(* for pct in [106.25,118.75), the lower end included and the upper end    *)
(* excluded, and the 'not observed' band exactly for pct >= 118.75         *)
C11_FogHalfOpenInterval ==
  (op = "get_cloudcover" /\ ~IsNone(n)) =>
    LET v == Val(n).m IN
      /\ (IsFogBand(Val(out)) <=> (106250 <= v /\ v < 118750))
      /\ (IsUnknownBand(Val(out)) <=> v >= 118750)

C11_Witness ==
  /\ op = "get_cloudcover" /\ n = Some(Float_(118750))
  /\ IsUnknownBand(Val(out))

(* the two decimal digits of k in 0..99 *)
TwoDigits(k) ==
  LET d == <<"0", "1", "2", "3", "4", "5", "6", "7", "8", "9">>
  IN <<d[(k \div 10) + 1], d[(k % 10) + 1]>>

Abs(k) == IF k < 0 THEN 0 - k ELSE k

(* the visibility of the call in progress, in 1/1000 m *)
VisMilli == args[1].m

(* the code of h hundreds of metres, h in 0..55, by steps 1 and 2 *)
HundredsCode(h) == IF h <= 50 THEN TwoDigits(h) ELSE <<"5", "0">>

(* C12: with h the visibility in hundreds of metres rounded to an integer, *)
(* visibility_code returns h as two zero-padded digits for h <= 50 and     *)
(* '50' for 50 < h <= 55; half way between two integers h is one of the    *)
(* two; visibility_code(5000) = '50' and visibility_code(5300) = '50'      *)
C12_HundredsOfMetres ==
  (op = "visibility_code" /\ VisMilli >= 0) =>
    /\ \A h \in 0..55 :
         (2 * Abs(VisMilli - 100000 * h) < 100000) => out = Ok(HundredsCode(h))
    /\ (VisMilli <= 5500000) =>
         \E h \in 0..55 : /\ 2 * Abs(VisMilli - 100000 * h) <= 100000
                           /\ out = Ok(HundredsCode(h))
    /\ (VisMilli \in {5000000, 5300000} => out = Ok(<<"5", "0">>))

C12_Witness ==
  /\ op = "visibility_code" /\ args = <<Int_(5300)>> /\ out = Ok(<<"5", "0">>)

(* C13: above 5500 m (more than 55 hundreds of metres), with km the        *)
(* visibility in kilometres rounded to an integer, visibility_code returns *)
(* km+50 for km <= 30, else steps+74 for steps = round(km/5) <= 14, else   *)
(* '89'; visibility_code(10000) = '60' and visibility_code(100000) = '89'  *)
C13_KilometreSteps ==
  (op = "visibility_code" /\ VisMilli > 5550000) =>
    /\ \A km \in 6..120 :
         (2 * Abs(VisMilli - 1000000 * km) < 1000000) =>
           LET steps == (2 * km + 5) \div 10 IN
             out = Ok(IF km <= 30 THEN TwoDigits(km + 50)
                      ELSE IF steps <= 14 THEN TwoDigits(steps + 74)
                      ELSE <<"8", "9">>)
    /\ (VisMilli = 10000000 => out = Ok(<<"6", "0">>))
    /\ (VisMilli = 100000000 => out = Ok(<<"8", "9">>))

(* C14: for every visibility >= 0 m visibility_code returns, without       *)
(* raising, a str of exactly two decimal digits between '00' and '89'      *)
C14_TotalTwoDigits ==
  (op = "visibility_code" /\ VisMilli >= 0) =>
    /\ IsOk(out)
    /\ \E k \in 0..89 : out[2] = TwoDigits(k)

C14_Witness ==
  /\ op = "visibility_code" /\ args = <<Float_(5550001)>> /\ out = Ok(<<"8", "9">>)

(* the list that the caller handed to the first call of pressure_tendency  *)
GivenList == args[1]
AllNumeric(l) == \A i \in 1..Len(l) : ~IsNone(l[i][2])
(* the pressures of the list l, rounded to 0.1 hPa, in 1/10 hPa *)
Tenths(l) == {round(Val(l[i][2]), 10) : i \in 1..Len(l)}
SetMin(S) == CHOOSE x \in S : \A y \in S : x <= y
SetMax(S) == CHOOSE x \in S : \A y \in S : x >= y

(* the documented decision list, the first match wins *)
DecisionList(p3h, p0h, pmin, pmax) ==
  CASE p3h = p0h -> Some(4)
    [] p3h # p0h /\ pmin = p3h /\ pmax = p0h -> Some(2)
    [] p3h # p0h /\ ~(pmin = p3h /\ pmax = p0h) /\ pmin = p0h /\ pmax = p3h -> Some(7)
    [] OTHER ->
         IF p0h > p3h /\ pmin <= p0h THEN Some(3)
         ELSE IF p0h <= p3h /\ pmin < p0h THEN Some(5)
         ELSE IF p0h < p3h /\ pmax >= p3h THEN Some(8)
         ELSE IF p0h < p3h /\ pmin = p0h THEN Some(6)
         ELSE IF p0h > p3h /\ pmax = p0h THEN Some(1)
         ELSE None

(* C15: for a list of at least two numeric samples pressure_tendency       *)
(* returns what the documented decision list gives for the first and the   *)
(* last pressure and the lowest and the highest pressure of the whole      *)
(* list, all rounded to 0.1 hPa; equal first and last pressure give 4      *)
(* whatever the samples in between are                                     *)
C15_DecisionList ==
  (/\ op = "pressure_tendency" /\ first = <<>>
   /\ Len(GivenList) >= 2 /\ AllNumeric(GivenList)) =>
    LET t == Tenths(GivenList)
        p3h == round(Val(GivenList[1][2]), 10)
        p0h == round(Val(GivenList[Len(GivenList)][2]), 10)
    IN /\ out = Ok(DecisionList(p3h, p0h, SetMin(t), SetMax(t)))
       /\ (p3h = p0h => out = Ok(Some(4)))

C15_Witness ==
  /\ op = "pressure_tendency" /\ first = <<>>
  /\ GivenList = <<<<0, Some(100000)>>, <<5400, Some(100100)>>, <<10800, Some(100025)>>>>
  /\ out = Ok(Some(3))

(* C16: pressure_tendency leaves the list of the caller as it was, the     *)
(* same samples in the same order, and a second call with the same list    *)
(* returns what the first call returned                                    *)
C16_ListUnchanged ==
  (/\ op = "pressure_tendency"
   /\ Len(GivenList) >= 2 /\ AllNumeric(GivenList)) =>
    /\ p_list = GivenList
    /\ (first # <<>> => out = first[1])

(* C17: for a list with a missing pressure and for a list of fewer than    *)
(* two samples pressure_tendency returns None and does not raise           *)
C17_IndeterminateIsNone ==
  (/\ op = "pressure_tendency" /\ first = <<>>
   /\ (Len(GivenList) < 2 \/ ~AllNumeric(GivenList))) =>
    out = Ok(None)

(* the four readings of the call of pressure_tendency_bufr in progress *)
BufrNumeric == op = "pressure_tendency_bufr" /\ \A i \in 1..4 : IsNumber(args[i])
P3 == Val(args[1])
P2 == Val(args[2])
P1 == Val(args[3])
P0 == Val(args[4])
Sgn(x) == IF x > 0 THEN 1 ELSE IF x = 0 THEN 0 ELSE 0 - 1
S_all == Sgn(P0 - P3)
S_shape == Sgn((P0 - P1) - (P2 - P3))
S_recent == Sgn(P0 - P1)

(* the rows of the documented table that the code agrees with *)
SignTableCommon(sa, ss, sr) ==
  CASE sa = 1 /\ ss = 1 -> 3
    [] sa = 1 /\ ss = 0 -> 2
    [] sa = 1 /\ ss = 0 - 1 -> IF sr >= 0 THEN 1 ELSE 0
    [] sa = 0 /\ ss = 1 -> 5
    [] sa = 0 /\ ss = 0 -> 4
    [] sa = 0 /\ ss = 0 - 1 -> 0
    [] sa = 0 - 1 /\ ss = 0 -> 7
    [] sa = 0 - 1 /\ ss = 0 - 1 -> 8

(* C18 as stated: pressure_tendency_bufr returns the code of the           *)
(* documented sign table, in which (-1,+1,+1 or 0) is 5 and (-1,+1,-1) is  *)
(* 6, for every four numeric readings                                      *)
C18_Original_SignTable ==
  BufrNumeric =>
    out = Some(IF S_all = 0 - 1 /\ S_shape = 1
               THEN (IF S_recent >= 0 THEN 5 ELSE 6)
               ELSE SignTableCommon(S_all, S_shape, S_recent))

(* C18 amended: pressure_tendency_bufr returns the code of the sign table  *)
(* in which (-1,+1,+1) is 5 and (-1,+1,0 or -1) is 6, all other rows as    *)
(* documented, for every four numeric readings                             *)
C18_SignTable ==
  BufrNumeric =>
    out = Some(IF S_all = 0 - 1 /\ S_shape = 1
               THEN (IF S_recent = 1 THEN 5 ELSE 6)
               ELSE SignTableCommon(S_all, S_shape, S_recent))

C18_Witness ==
  /\ op = "pressure_tendency_bufr"
  /\ args = <<Some(100200), Some(100100), Some(100000), Some(100000)>>
  /\ out = Some(6)

(* a rise by the same amount in each of the three hours *)
UniformRise == P2 - P3 > 0 /\ P1 - P2 = P2 - P3 /\ P0 - P1 = P2 - P3

(* C19 as stated: pressure_tendency_bufr(1000.0, 1001.0, 1002.0, 1003.0)   *)
(* and every series rising by the same amount in each hour return 3        *)
C19_Original_UniformRiseIs3 ==
  (BufrNumeric /\ UniformRise) => out = Some(3)

(* C19 amended: pressure_tendency_bufr(1000.0, 1001.0, 1002.0, 1003.0)     *)
(* and every series rising by the same amount in each hour return 2        *)
C19_UniformRiseIs2 ==
  (BufrNumeric /\ UniformRise) => out = Some(2)

C19_Witness ==
  /\ op = "pressure_tendency_bufr"
  /\ args = <<Some(100000), Some(100100), Some(100200), Some(100300)>>
  /\ out = Some(2)

(* C20 as stated: with the pressure now equal to the pressure 3 hours ago  *)
(* pressure_tendency_bufr returns 4 whatever the readings in between are   *)
C20_Original_SameIs4 ==
  (BufrNumeric /\ P0 = P3) => out = Some(4)

(* C20 amended: with the pressure now equal to the pressure 3 hours ago    *)
(* pressure_tendency_bufr returns 4 if the change of the last hour equals  *)
(* the change of the first hour, 5 if it is greater and 0 if it is less;   *)
(* pressure_tendency_bufr(1000.0, 1000.5, 1000.2, 1000.0) returns 0        *)
C20_SameIs4_5_0 ==
  (BufrNumeric /\ P0 = P3) =>
    /\ (P0 - P1 = P2 - P3 => out = Some(4))
    /\ (P0 - P1 > P2 - P3 => out = Some(5))
    /\ (P0 - P1 < P2 - P3 => out = Some(0))

C20_Witness ==
  /\ op = "pressure_tendency_bufr"
  /\ args = <<Some(100000), Some(100050), Some(100020), Some(100000)>>
  /\ out = Some(0)

(* C21: pressure_tendency_bufr does not raise: with a reading that is      *)
(* missing or not a number the result is None, and with four numbers the   *)
(* result is an integer of 0..8, never None                                *)
C21_BufrNeverRaises ==
  (op = "pressure_tendency_bufr") =>
    /\ ((\E i \in 1..4 : ~IsNumber(args[i])) => out = None)
    /\ (BufrNumeric => (out # None /\ out \in {Some(c) : c \in 0..8}))

C21_Witness ==
  /\ op = "pressure_tendency_bufr"
  /\ args = <<Some(100000), NotANumber, Some(100100), None>>
  /\ out = None

(* C26: for a list of at least two samples with numeric pressures and      *)
(* distinct first and last timestamps, in whatever order the samples       *)
(* stand, pressure_tendency returns one of the codes 2, 3, 4, 5, 7, 8:     *)
(* never None and never 0, 1 or 6                                          *)
C26_ReachableCodes ==
  (/\ op = "pressure_tendency"
   /\ Len(GivenList) >= 2 /\ AllNumeric(GivenList)) =>
    /\ p_list[1][1] # p_list[Len(p_list)][1]
    /\ out \in {Ok(Some(c)) : c \in {2, 3, 4, 5, 7, 8}}

(* the highest pressure is the last one, the lowest lies in between *)
C26_Witness ==
  /\ op = "pressure_tendency" /\ first = <<>>
  /\ GivenList = <<<<0, Some(100025)>>, <<5400, Some(100000)>>, <<10800, Some(100100)>>>>
  /\ out = Ok(Some(3))

(* the '<table>:<code>' marker of a code that the table does not have *)
OutOfRangeMarker(t, c) ==
  (IF t < 0 THEN <<"-">> ELSE <<>>) \o Digits(Abs(t)) \o <<":">>
    \o (IF c < 0 THEN <<"-">> ELSE <<>>) \o Digits(Abs(c))

(* the symbols of the codes of table t *)
TableSymbols(t) == {WMO_TABLES[t][k] : k \in DOMAIN WMO_TABLES[t]} \ {None}

(* C22: for each of the tables 2700, 4561, 4531, 4677, 4680 and every      *)
(* integer code outside the domain of the table, codes below zero          *)
(* included, the lookup of WMOSymbolBinder gives the '<table>:<code>'      *)
(* marker and never the symbol of a code of the table                      *)
C22_BoundsChecked ==
  (/\ op = "WMOSymbolBinder"
   /\ args[2] \in DOMAIN WMO_TABLES
   /\ args[1] \notin DOMAIN WMO_TABLES[args[2]]) =>
    /\ out = OutOfRangeMarker(args[2], args[1])
    /\ out \notin TableSymbols(args[2])

(* the barb of the call of wind in progress: the speed in knots, to the    *)
(* nearest 5 kn, and the number of strokes of each kind                    *)
BarbDrawn == op = "wind" /\ out # <<>>
QuantizedKnots == 5 * round(Val(args[1]) * 539957, 5000000)
Strokes(kind) ==
  Cardinality({i \in 1..Len(out.strokes) : out.strokes[i][1] = kind})

(* C24: with the speed to the nearest 5 kn q > 0, the barb has q div 50    *)
(* flags, (q mod 50) div 10 full barbs and a half barb iff q mod 10 = 5,   *)
(* also from 100 kn on                                                     *)
C24_BarbComposition ==
  BarbDrawn =>
    /\ Strokes("flag") = QuantizedKnots \div 50
    /\ Strokes("full") = (QuantizedKnots % 50) \div 10
    /\ Strokes("half") = (IF QuantizedKnots % 10 = 5 THEN 1 ELSE 0)

(* C27: the barb stands for the speed to the nearest 5 kn q: 50 for each   *)
(* flag, 10 for each full barb and 5 for each half barb add up to q, there *)
(* is at most one half barb and it is the last stroke drawn                *)
C27_BarbValue ==
  BarbDrawn =>
    /\ QuantizedKnots >= 5
    /\ 50 * Strokes("flag") + 10 * Strokes("full") + 5 * Strokes("half")
         = QuantizedKnots
    /\ Strokes("half") <= 1
    /\ \A i \in 1..Len(out.strokes) :
         out.strokes[i][1] = "half" => i = Len(out.strokes)

C27_Witness ==
  /\ op = "wind" /\ args = <<Some(102), Some(90)>>
  /\ out.strokes = << <<"flag", 0>>, <<"shaft", 0>>, <<"half", 18>> >>

(* the layout of the call of station in progress: the preset, the width,   *)
(* the rectangle of every element placed, and the union of the rectangles  *)
StationDrawn == op = "station" /\ IsOk(out)
StationFormat == IF args[1] \in DOMAIN FORMAT THEN FORMAT[args[1]] ELSE FORMAT["WMO"]
StationWidth == IF IsNone(args[2]) THEN 50 ELSE Val(args[2])
PlacedRect(el) ==
  LET w == StationWidth
      r == IF el[1] = "text" THEN StationFormat[el[2]]
           ELSE IF el[1] = "W" THEN StationFormat[el[2]]
           ELSE StationFormat[el[1]]
  IN IF el[1] = "wind" THEN <<-15, -15, w + 15, w + 15>>
     ELSE <<r[1] * w, r[2] * w, r[3] * w, r[4] * w>>
PlacedRects == {PlacedRect(out[2].els[i]) : i \in 1..Len(out[2].els)}
UnionBox ==
  LET x0 == SetMin({r[1] : r \in PlacedRects})
      y0 == SetMin({r[2] : r \in PlacedRects})
      x1 == SetMax({r[3] : r \in PlacedRects})
      y1 == SetMax({r[4] : r \in PlacedRects})
  IN <<x0, y0, x1 - x0, y1 - y0>>

(* C23: the viewBox of a station model is the union of the rectangle of    *)
(* the cloud symbol and of the rectangles of the fields that were placed;  *)
(* a field that is absent or for which no element is emitted does not      *)
(* enlarge it, whatever the fields and their order                         *)
C23_BoxIsUnionOfPlaced ==
  StationDrawn => out[2].viewBox = UnionBox

(* the weather codes that Open-Meteo defines: the keys of WEATHER but -1 *)
DefinedOpenMeteoCodes == DOMAIN WEATHER \ {-1}

(* C30: for every integer weather code that Open-Meteo does not define,    *)
(* -1 included, get_ww of DWDOPENMETEOthread returns the entry WEATHER[-1] *)
(* with its unknown icons, no cloud cover icon, and does not raise         *)
C30_UnknownCodeFallback ==
  (op = "DWDOPENMETEOthread.get_ww" /\ args[1] \notin DefinedOpenMeteoCodes)
    => out = Ok(WEATHER[-1])

(***************************************************************************)
(* The service and its provider thread                                     *)
(***************************************************************************)
(* the handler of the archive record has called get_data of the thread    *)
(* and no getRecord has completed since                                    *)
GetDataCalled == step[1] = "new_archive_record"

(* C25: DWDPOIthread.get_data of the dwd module empties the buffer: a      *)
(* second get_data call with no getRecord completing in between returns    *)
(* an empty data list                                                      *)
C25_SecondGetDataEmpty ==
  (thread.datasource = "dwdPOI" /\ GetDataCalled)
    => dwd_get_data(data, last_get_ts).data = PyList(<<>>)

(* what get_data of the thread returns in this state *)
BufferedData ==
  IF thread.datasource = "dwdPOI"
  THEN <<dwd_get_data(data, last_get_ts).data, dwd_get_data(data, last_get_ts).interval>>
  ELSE get_data(thread.datasource, data, maxtime)

(* a getRecord call in which every download failed *)
FailedFetch == step'[1] = "getRecord" /\ step'[2] = "failed"

(* C29: a failed fetch cycle leaves the buffered data unchanged: if every  *)
(* download of a getRecord call fails, get_data afterwards returns the     *)
(* same data as before that call                                           *)
C29_FailedFetchKeepsData == [][FailedFetch => BufferedData' = BufferedData]_vars

(* the handler of weatherservices.py has merged a record of its thread *)
RecordMerged ==
  /\ step[1] = "new_archive_record"
  /\ thread.datasource \in {"POI", "CDC", "ZAMG", "OPENMETEO"}

(* the buffered record as get_data returned it: the first of the list,     *)
(* for DWDCDCthread the one at maxtime, for ZAMGthread the dict itself     *)
BufferedRecord ==
  IF thread.datasource \in {"POI", "OPENMETEO"}
    THEN (IF PyTruthy(got[1]) THEN PyDict(got[1][2][1]) ELSE PyNone)
  ELSE IF thread.datasource = "CDC"
    THEN (IF PyTruthy(got[1]) /\ ~IsNone(got[3])
          THEN PyDict(got[1][2][Val(got[3]) + 1]) ELSE PyNone)
  ELSE got[1]

(* the fields of the buffered record that go into the archive record *)
MergedFields(rec) ==
  {key \in DOMAIN rec :
     /\ key \notin {"interval", "count", "sysStatus"}
     /\ ~(key = "dateTime" /\ thread.prefix = "")}

(* the field of the archive record that the field key is merged into *)
ArchiveField(key) ==
  IF thread.prefix = "" THEN <<key>> ELSE <<thread.prefix, upper_first[key]>>

(* dateTime is None or more than 3 h before the archive record *)
Older3h(rec, ts) ==
  IsNone(rec.dateTime[1]) \/ ts - Val(rec.dateTime[1]) > 10800

(* the value of a reading in the unit system usUnits: degree Celsius in    *)
(* degree Fahrenheit and meter in foot for US, in tenths; nothing to       *)
(* convert otherwise                                                       *)
InUnitSystem(val_t, usUnits) ==
  IF IsNone(val_t[1]) THEN None
  ELSE IF usUnits = 1 /\ val_t[3] = <<"group_temperature">> /\ val_t[2] = <<"degree_C">>
    THEN Some((Val(val_t[1]) * 9) \div 5 + 320)
  ELSE IF usUnits = 1 /\ val_t[3] = <<"group_altitude">> /\ val_t[2] = <<"meter">>
    THEN Some((Val(val_t[1]) * 10000) \div 3048)
  ELSE val_t[1]

(* C28 as stated: no stale readings in the archive record: the fields      *)
(* merged from a buffered record whose dateTime is None or more than       *)
(* 10800 s before the archive record are None, except latitude, longitude  *)
(* and altitude; a record not older is merged with its values unchanged    *)
C28_StaleNoneFreshUnchanged ==
  (RecordMerged /\ PyTruthy(BufferedRecord)) =>
    LET rec == BufferedRecord[2] IN
    \A key \in MergedFields(rec) :
      IF Older3h(rec, step[2])
      THEN key \in KeptKeys \/ IsNone(record[ArchiveField(key)])
      ELSE record[ArchiveField(key)] = rec[key][1]

(* C28, amended: as stated for the record that is older; a record not      *)
(* older than 3 h is merged with its values converted to the unit system   *)
(* usUnits of the archive record, unchanged where nothing is to convert    *)
C28_StaleNoneFreshConverted ==
  (RecordMerged /\ PyTruthy(BufferedRecord)) =>
    LET rec == BufferedRecord[2] IN
    \A key \in MergedFields(rec) :
      IF Older3h(rec, step[2])
      THEN key \in KeptKeys \/ IsNone(record[ArchiveField(key)])
      ELSE record[ArchiveField(key)] = InUnitSystem(rec[key], step[3])

(* readings of exactly 3 h of age are merged into an archive record in US  *)
(* units: 20.0 degree Celsius as 68.0 degree Fahrenheit                    *)
C28_Witness ==
  /\ RecordMerged /\ PyTruthy(BufferedRecord)
  /\ step[2] = 100000 + 10800 /\ step[3] = 1
  /\ BufferedRecord[2].dateTime[1] = Some(100000)
  /\ "outTemp" \in DOMAIN BufferedRecord[2]
  /\ BufferedRecord[2].outTemp[1] = Some(200)
  /\ record[ArchiveField("outTemp")] = Some(680)

====
